---- MODULE Spec2Model ----
(***************************************************************************)
(* Model of the TrustLens review pipeline (backend/execution).             *)
(*                                                                         *)
(* Specification Spec: the ReviewExecutor task table and the execute_review *)
(* coroutine, cut at the loop head and at its await points (model call,     *)
(* progress callback).  The context, the callback and the executor's model  *)
(* client are fixed per behaviour; execute_review calls run one after       *)
(* another, create_review, get_task and list_tasks run between their steps. *)
(* Of ReviewTask the model keeps status, results, started_at, completed_at  *)
(* and error; of ReviewResult rule_id, rule_name, status, evidence, error.  *)
(***************************************************************************)
EXTENDS Integers, Sequences, FiniteSets, TLC

(***************************************************************************)
(* Bounds of the model                                                     *)
(***************************************************************************)
\* number of review ids create_review can hand out
MaxTasks == 2
\* number of execute_review invocations in one behaviour
MaxCalls == 2
\* longest rule list passed to execute_review
MaxRules == 2

(***************************************************************************)
(* Helpers on sequences                                                    *)
(***************************************************************************)
Take(s, n) == IF n >= Len(s) THEN s ELSE SubSeq(s, 1, n)

RECURSIVE Concat(_)
Concat(ss) == IF ss = <<>> THEN <<>> ELSE Head(ss) \o Concat(Tail(ss))

(***************************************************************************)
(* Texts.  The mock responder looks for two substrings of the prompt,      *)
(* "30<tian>" (thirty days, written here "30d") and "45"; a text is         *)
(* represented by the set of those substrings that occur in it.            *)
(***************************************************************************)
D30 == "30d"
D45 == "45"

(***************************************************************************)
(* ReviewStatus (executor.py:19-24)                                        *)
(***************************************************************************)
PENDING == "PENDING"
RUNNING == "RUNNING"
COMPLETED == "COMPLETED"
FAILED == "FAILED"
ReviewStatus == {PENDING, RUNNING, COMPLETED, FAILED}

\* Python None for optional string fields
None == "None"

(***************************************************************************)
(* Chunks handed to the prompt assembler: chunk_id, clause_hint and the    *)
(* markers that occur in the chunk's formatted block (id, page, text).     *)
(***************************************************************************)
ChunkPlain == [chunk_id |-> "d_p2_c0", doc_id |-> "d", clause_hint |-> "other", marks |-> {}]
Chunk45 == [chunk_id |-> "d_p1_c1", doc_id |-> "d", clause_hint |-> "payment", marks |-> {D45}]
Chunk30 == [chunk_id |-> "d_p1_c0", doc_id |-> "d", clause_hint |-> "payment", marks |-> {D30}]

(***************************************************************************)
(* Rules.  shape "dict" is a mapping; shape "nondict" is a list element    *)
(* that has no .get (e.g. None).  intent is "" or a text; params is the    *)
(* empty mapping ("empty"), one string entry ("str") or null ("null");     *)
(* type selects the templates ("requirement", "text_contains",             *)
(* "prohibition", "numeric_constraint", or a type without templates);      *)
(* marks are the markers that occur in the fields rendered into the        *)
(* prompt.                                                                 *)
(***************************************************************************)
RulePlain == [rule_id |-> "r_plain", name |-> "n_plain", shape |-> "dict", intent |-> "text",
              params |-> "empty", type |-> "requirement", tags |-> <<>>, marks |-> {}]
Rule45 == [rule_id |-> "r_45", name |-> "n_45", shape |-> "dict", intent |-> "text",
           params |-> "str", type |-> "numeric_constraint", tags |-> <<"pay">>, marks |-> {D45}]
RuleNullParams == [rule_id |-> "r_null", name |-> "n_null", shape |-> "dict", intent |-> "text",
                   params |-> "null", type |-> "prohibition", tags |-> <<>>, marks |-> {}]
RuleBare == [rule_id |-> "r_bare", name |-> "n_bare", shape |-> "dict", intent |-> "",
             params |-> "empty", type |-> "", tags |-> <<>>, marks |-> {}]
RuleNone == [rule_id |-> "", name |-> "", shape |-> "nondict", intent |-> "",
             params |-> "null", type |-> "", tags |-> <<>>, marks |-> {}]

RuleUniverse == {RulePlain, Rule45, RuleNullParams, RuleBare, RuleNone}

(***************************************************************************)
(* Exception texts (str(e)) raised on the per-rule path                    *)
(***************************************************************************)
ExcNoGet == "'NoneType' object has no attribute 'get'"
ExcNoItems == "'NoneType' object has no attribute 'items'"
ExcSearch == "embedding provider error"
ExcCallback == "progress callback error"
ExcAwaitNone == "object NoneType can't be used in 'await' expression"
\* review_routes.py:113, the text of the ValueError in translation
ExcSetup == "document does not exist"

(***************************************************************************)
(* Query Builder (query_builder.py).  A query is represented by its kind.  *)
(***************************************************************************)
\* RuleAwareQueryBuilder.__init__ default, used by build_search_queries
max_queries_per_rule == 3

\* _build_queries_from_intent: nothing for an empty intent, else the
\* semantic query and the keyword query
BuildQueriesFromIntent(rule) ==
    IF rule.intent = "" THEN <<>> ELSE <<"intent", "keywords">>

\* _build_queries_from_params: one keyword query per string/number entry
BuildQueriesFromParams(rule) ==
    IF rule.params = "str" THEN <<"param">> ELSE <<>>

\* _build_queries_from_templates: the four templates of a known rule type,
\* filled from params or from the default phrase; the templates of
\* numeric_constraint keep the placeholder of the parameter name, and are
\* skipped, when params is empty; none for an unknown type
BuildQueriesFromTemplates(rule) ==
    IF \/ rule.type \in {"requirement", "text_contains", "prohibition"}
       \/ rule.type = "numeric_constraint" /\ rule.params # "empty"
    THEN <<"template", "template", "template", "template">>
    ELSE <<>>

\* _build_queries_for_rule / build_search_queries([rule], combine_rules=False):
\* params.items() raises when params is null
BuildSearchQueries(rule) ==
    IF rule.params = "null"
    THEN [raises |-> TRUE, exc |-> ExcNoItems, queries |-> <<>>]
    ELSE [raises |-> FALSE, exc |-> None,
          queries |-> Take(BuildQueriesFromIntent(rule) \o BuildQueriesFromParams(rule)
                           \o BuildQueriesFromTemplates(rule), max_queries_per_rule)]

(***************************************************************************)
(* Execution contexts (executor.py:79-88).  pipeline: "none" (no embedding *)
(* pipeline), "ok", or "broken" (its search raises).  chunks: the chunk    *)
(* list of the context; index: for every query the ranked list the         *)
(* pipeline's search returns.  llm: whether the context carries a model    *)
(* client.                                                                 *)
(***************************************************************************)
\* ExecutionContext.max_retrieved_chunks default
max_retrieved_chunks == 10

\* the kinds of query the builder makes
QueryKinds == {"intent", "keywords", "param", "template"}

\* an index that answers every query with the same ranked list
SameForAll(results) == [q \in QueryKinds |-> results]

ExecutionContext(doc_id, chunks, pipeline, index, max_chunks, llm) ==
    [doc_id |-> doc_id, pipeline |-> pipeline, chunks |-> chunks, index |-> index,
     max_retrieved_chunks |-> max_chunks, llm |-> llm]

CtxMockEmpty ==
    ExecutionContext("d", <<>>, "none", SameForAll(<<>>), max_retrieved_chunks, FALSE)
CtxMockChunks ==
    ExecutionContext("d", <<Chunk30, ChunkPlain>>, "none", SameForAll(<<>>),
                     max_retrieved_chunks, FALSE)
CtxPipeline ==
    ExecutionContext("d", <<>>, "ok", SameForAll(<<Chunk45, ChunkPlain>>),
                     max_retrieved_chunks, FALSE)
CtxBroken ==
    ExecutionContext("d", <<>>, "broken", SameForAll(<<>>), max_retrieved_chunks, FALSE)
CtxLlm ==
    ExecutionContext("d", <<>>, "none", SameForAll(<<>>), max_retrieved_chunks, TRUE)

\* a tag matches a clause hint when it is a substring of it (executor.py:328)
TagIn(tag, hint) ==
    \/ tag = hint
    \/ tag = ""
    \/ tag = "pay" /\ hint = "payment"

RECURSIVE FilterByTags(_, _)
FilterByTags(results, tags) ==
    IF results = <<>> THEN <<>>
    ELSE IF \E k \in 1..Len(tags) : TagIn(tags[k], Head(results).clause_hint)
         THEN <<Head(results)>> \o FilterByTags(Tail(results), tags)
         ELSE FilterByTags(Tail(results), tags)

RECURSIVE Dedup(_, _)
Dedup(results, seen) ==
    IF results = <<>> THEN <<>>
    ELSE IF Head(results).chunk_id # "" /\ Head(results).chunk_id \notin seen
         THEN <<Head(results)>> \o Dedup(Tail(results), seen \cup {Head(results).chunk_id})
         ELSE Dedup(Tail(results), seen)

\* EmbeddingPipeline.search(query.text, top_k), called without doc_filter
\* and clause_filter: the ranked records of the whole index, cut to top_k
PipelineSearch(ctx, query, top_k) == Take(ctx.index[query], top_k)

\* ReviewExecutor._retrieve_chunks
RetrieveChunks(queries, ctx, tags) ==
    IF ctx.pipeline = "none"
    THEN [raises |-> FALSE, exc |-> None,
          chunks |-> Take(ctx.chunks, ctx.max_retrieved_chunks)]
    ELSE IF ctx.pipeline = "broken"
    THEN [raises |-> TRUE, exc |-> ExcSearch, chunks |-> <<>>]
    ELSE LET perQuery == [k \in 1..Len(queries) |->
                            IF tags # <<>>
                            THEN FilterByTags(PipelineSearch(ctx, queries[k],
                                                             ctx.max_retrieved_chunks), tags)
                            ELSE PipelineSearch(ctx, queries[k], ctx.max_retrieved_chunks)]
         IN [raises |-> FALSE, exc |-> None,
             chunks |-> Take(Dedup(Concat(perQuery), {}), ctx.max_retrieved_chunks)]

(***************************************************************************)
(* Prompt Assembler (review_prompt.py:66-139): the prompt is the template  *)
(* with the rule's fields and the formatted chunks substituted; its        *)
(* markers are those of the template, the rule and the chunks.             *)
(***************************************************************************)
TemplateMarks == {}

BuildReviewPrompt(rule, chunks) ==
    TemplateMarks \cup rule.marks \cup UNION {chunks[k].marks : k \in 1..Len(chunks)}

(***************************************************************************)
(* Model outputs.  A raw output text is represented by what the validator  *)
(* reads of it: whether it parses (json: "invalid", "number" for a JSON    *)
(* value that is no container, "list" for a JSON array or string, "object")*)
(* and its fields; "absent" is a missing key (for a "list", a name that is *)
(* no member of it).  evidence.kind is "absent", "nonlist" or "list"; an   *)
(* item is an object or not, and is complete when it has chunk_id, page    *)
(* and text.  confidence is "absent", "in" (a number of [0,1]), "out" (a   *)
(* number outside it, NaN included), "bool" (true or false) or "nonnumber" *)
(* (any other value).                                                      *)
(***************************************************************************)
Absent == "absent"

NoEvidence == [kind |-> Absent, items |-> <<>>]
EmptyEvidence == [kind |-> "list", items |-> <<>>]
Evidence(ids) == [kind |-> "list",
                  items |-> [k \in 1..Len(ids) |-> [object |-> TRUE, complete |-> TRUE, chunk_id |-> ids[k]]]]

\* the three texts of ReviewExecutor._mock_llm_response
MockPass == [json |-> "object", rule_id |-> "payment_cycle_max_30", rule_name |-> "mock_name",
             status |-> "PASS", reason |-> "text", evidence |-> Evidence(<<"doc1_p1_c0">>),
             confidence |-> "in"]
MockRisk == [json |-> "object", rule_id |-> "payment_cycle_max_30", rule_name |-> "mock_name",
             status |-> "RISK", reason |-> "text", evidence |-> Evidence(<<"doc2_p1_c0">>),
             confidence |-> "in"]
MockMissing == [json |-> "object", rule_id |-> "payment_cycle_max_30", rule_name |-> "mock_name",
                status |-> "MISSING", reason |-> "text", evidence |-> EmptyEvidence,
                confidence |-> "in"]

\* ReviewExecutor._mock_llm_response: keyed on the prompt's content
MockLlmResponse(prompt) ==
    IF D30 \in prompt /\ D45 \notin prompt THEN MockPass
    ELSE IF D45 \in prompt THEN MockRisk
    ELSE MockMissing

\* outputs a model client can return
OutNotJson == [json |-> "invalid", rule_id |-> Absent, rule_name |-> Absent, status |-> Absent,
               reason |-> Absent, evidence |-> NoEvidence, confidence |-> Absent]
OutNoReason == [json |-> "object", rule_id |-> "r_llm", rule_name |-> Absent, status |-> "PASS",
                reason |-> Absent, evidence |-> NoEvidence, confidence |-> Absent]
OutBadStatus == [json |-> "object", rule_id |-> "r_llm", rule_name |-> Absent, status |-> "FAILED",
                 reason |-> "text", evidence |-> EmptyEvidence, confidence |-> "in"]
OutBadItem == [json |-> "object", rule_id |-> "r_llm", rule_name |-> Absent, status |-> "RISK",
               reason |-> "text",
               evidence |-> [kind |-> "list", items |-> <<[object |-> TRUE, complete |-> FALSE,
                                                           chunk_id |-> "d_p1_c0"]>>],
               confidence |-> "in"]
OutBadConfidence == [json |-> "object", rule_id |-> "r_llm", rule_name |-> Absent, status |-> "PASS",
                     reason |-> "text", evidence |-> NoEvidence, confidence |-> "out"]
OutPass == [json |-> "object", rule_id |-> "r_llm", rule_name |-> "n_llm", status |-> "PASS",
            reason |-> "text", evidence |-> Evidence(<<"d_p1_c0">>), confidence |-> "in"]
OutMissingBare == [json |-> "object", rule_id |-> "r_llm", rule_name |-> Absent, status |-> "MISSING",
                   reason |-> "text", evidence |-> NoEvidence, confidence |-> Absent]
OutMissingCited == [json |-> "object", rule_id |-> "r_llm", rule_name |-> Absent, status |-> "MISSING",
                    reason |-> "text", evidence |-> Evidence(<<"d_p2_c0">>), confidence |-> "in"]

\* the texts the validator is exercised on
ValidatorInputs == {OutNotJson, OutNoReason, OutBadStatus, OutBadItem, OutBadConfidence,
                    OutPass, OutMissingBare, OutMissingCited, MockPass, MockRisk, MockMissing}

\* the texts the model client of the executor's runs returns
LlmOutputs == {OutNoReason, OutPass, OutMissingCited}

(***************************************************************************)
(* Output Validator (review_prompt.py:202-277)                             *)
(***************************************************************************)
ErrInvalidJson == "Invalid JSON"
ErrValidation == "Validation error"
ErrMissing(field) == "Missing required field: " \o field
ErrStatus == "Invalid status"
ErrEvidenceArray == "evidence must be an array"
ErrEvidenceItem == "Each evidence item must be an object"
ErrEvidenceField == "Missing evidence field"
ErrConfidence == "confidence must be a number between 0 and 1"

\* result["data"] of a rejected output: None
NoData == [null |-> TRUE]

Invalid(err) == [valid |-> FALSE, error |-> err, data |-> NoData]

\* review_prompt.py:251-260: the error of the first item that is no object
\* or lacks a field; None when every item passes
RECURSIVE EvidenceItemsError(_)
EvidenceItemsError(items) ==
    IF items = <<>> THEN None
    ELSE IF ~Head(items).object THEN ErrEvidenceItem
    ELSE IF ~Head(items).complete THEN ErrEvidenceField
    ELSE EvidenceItemsError(Tail(items))

\* review_prompt.py:265: not isinstance(conf, (int, float)) or not
\* 0 <= conf <= 1; bool is a subclass of int, and True and False compare as
\* 1 and 0
ConfidenceRejected(conf) == conf \in {"out", "nonnumber"}

\* ReviewPromptValidator.validate_prompt_output, the checks in the code's order
ValidatePromptOutput(output) ==
    IF output.json = "invalid" THEN Invalid(ErrInvalidJson)
    \* `field not in data` raises TypeError
    ELSE IF output.json = "number" THEN Invalid(ErrValidation)
    ELSE IF output.rule_id = Absent THEN Invalid(ErrMissing("rule_id"))
    ELSE IF output.status = Absent THEN Invalid(ErrMissing("status"))
    ELSE IF output.reason = Absent THEN Invalid(ErrMissing("reason"))
    \* data["status"] raises TypeError
    ELSE IF output.json = "list" THEN Invalid(ErrValidation)
    ELSE IF output.status \notin {"PASS", "RISK", "MISSING"} THEN Invalid(ErrStatus)
    ELSE IF output.evidence.kind = "nonlist" THEN Invalid(ErrEvidenceArray)
    ELSE IF /\ output.evidence.kind = "list"
            /\ EvidenceItemsError(output.evidence.items) # None
         THEN Invalid(EvidenceItemsError(output.evidence.items))
    ELSE IF output.confidence # Absent /\ ConfidenceRejected(output.confidence)
         THEN Invalid(ErrConfidence)
    ELSE [valid |-> TRUE, error |-> None, data |-> output]

(***************************************************************************)
(* ReviewResult (executor.py:27-37): rule_id, rule_name, status, error and *)
(* the chunk ids of evidence.                                              *)
(***************************************************************************)
ReviewResult(rule_id, rule_name, status, evidence, error) ==
    [rule_id |-> rule_id, rule_name |-> rule_name, status |-> status,
     evidence |-> evidence, error |-> error]

\* executor.py:248-254: the rule yields no query
NoQueryResult(rule) == ReviewResult(rule.rule_id, rule.name, "FAILED", <<>>, None)

\* a faulty variant of InvalidResult: the rejected output is reported as a
\* verdict instead of a failure
InvalidResultFailOpen(rule, validated) ==
    ReviewResult(rule.rule_id, rule.name, "MISSING", <<>>, None)

\* executor.py:272-280: the validator rejected the output
InvalidResult(rule, validated) ==
    ReviewResult(rule.rule_id, rule.name, "FAILED", <<>>, validated.error)

\* executor.py:282-292: the result built from the validated data
DataResult(rule, data) ==
    ReviewResult(data.rule_id,
                 IF data.rule_name = Absent THEN rule.name ELSE data.rule_name,
                 data.status,
                 [k \in 1..Len(data.evidence.items) |-> data.evidence.items[k].chunk_id],
                 None)

\* executor.py:269-292: validation of the model's output and the result
ResultOfOutput(rule, output) ==
    LET validated == ValidatePromptOutput(output)
    IN IF ~validated.valid THEN InvalidResult(rule, validated)
       ELSE DataResult(rule, validated.data)

\* executor.py:204-210: the FAILED result of the per-rule handler
ErrorResult(rule, exc) == ReviewResult(rule.rule_id, rule.name, "FAILED", <<>>, exc)

(***************************************************************************)
(* _execute_rule_review up to the model call (executor.py:241-264): the    *)
(* rule raises, or yields the no-query result, or yields a prompt (with    *)
(* the number of chunks retrieved for it).                                 *)
(***************************************************************************)
NoResult == ReviewResult("", "", "", <<>>, None)

Raised(exc) == [kind |-> "raise", exc |-> exc, result |-> NoResult, prompt |-> {}, nchunks |-> 0]
Returned(result) == [kind |-> "result", exc |-> None, result |-> result, prompt |-> {}, nchunks |-> 0]
Prompted(prompt, n) == [kind |-> "prompt", exc |-> None, result |-> NoResult, prompt |-> prompt,
                        nchunks |-> n]

ReviewToPrompt(rule, ctx) ==
    IF rule.shape = "nondict" THEN Raised(ExcNoGet)
    ELSE LET built == BuildSearchQueries(rule)
         IN IF built.raises THEN Raised(built.exc)
            ELSE IF built.queries = <<>> THEN Returned(NoQueryResult(rule))
            ELSE LET got == RetrieveChunks(built.queries, ctx, rule.tags)
                 IN IF got.raises THEN Raised(got.exc)
                    ELSE Prompted(BuildReviewPrompt(rule, got.chunks), Len(got.chunks))

\* executor.py:204-210: building the FAILED result reads rule.get, which
\* raises for a rule that is no mapping
BuildErrorResult(rule, exc) ==
    IF rule.shape = "nondict"
    THEN [raises |-> TRUE, exc |-> ExcNoGet, result |-> NoResult]
    ELSE [raises |-> FALSE, exc |-> None, result |-> ErrorResult(rule, exc)]

(***************************************************************************)
(* State                                                                   *)
(***************************************************************************)
VARIABLES
    env,      \* what execute_review is called with: context, callback, executor's client
    tasks,    \* ReviewExecutor._tasks: review_id -> ReviewTask
    call,     \* the execute_review coroutine in flight (or the last one returned)
    ncalls,   \* number of execute_review invocations so far
    calls,    \* the execute_review coroutines of the event loop, when several run
    store,    \* the two vector stores, fed the same operations
    pipeline, \* EmbeddingPipeline.process_chunks in progress
    chunker,  \* DocumentChunker.chunk: its input and what it returned
    validator, \* ReviewPromptValidator: the text validated and the verdict
    builder,   \* RuleAwareQueryBuilder.build_queries: its input and what it returned
    retrieval, \* ReviewExecutor._retrieve_chunks: its input and what it returned
    service    \* DocumentService: the documents table and the last update_status call

\* the state outside the single-coroutine view of the executor
\* the components checked after the validator
restVars == <<builder, retrieval, service>>

otherVars == <<calls, store, pipeline, chunker, validator, restVars>>

vars == <<env, tasks, call, ncalls, otherVars>>

\* no coroutine was handed to the event loop
NoCalls == <<>>

\* a component that was not constructed
Unused == <<>>

CallsIdle == calls = NoCalls
StoreIdle == store = Unused
PipelineIdle == pipeline = Unused
ChunkerIdle == chunker = Unused
ValidatorIdle == validator = Unused
BuilderIdle == builder = Unused
RetrievalIdle == retrieval = Unused
ServiceIdle == service = Unused
RestIdle == BuilderIdle /\ RetrievalIdle /\ ServiceIdle

OthersIdle ==
    CallsIdle /\ StoreIdle /\ PipelineIdle /\ ChunkerIdle /\ ValidatorIdle /\ RestIdle

Contexts == {CtxMockEmpty, CtxMockChunks, CtxPipeline, CtxBroken, CtxLlm}

\* progress_callback: absent, a coroutine function that returns, one that
\* raises, or a plain function returning None (review_routes.py:135)
Callbacks == {"none", "async", "async_raises", "sync"}

Envs == {e \in [ctx : Contexts, cb : Callbacks, client : BOOLEAN] : e.client => e.ctx.llm}

ReviewIds == 1..MaxTasks

\* ReviewTask as create_review builds it (executor.py:137-147).  tasks
\* keeps every ReviewTask object ever created, under its review_id; listed
\* tells whether the table _tasks still holds it (executor.py:148,
\* 446-451): a coroutine keeps the object it looked up when it started
NewTask == [status |-> PENDING, results |-> <<>>, started_at |-> FALSE,
            completed_at |-> FALSE, error |-> None, listed |-> TRUE]

\* No coroutine yet.  Fields of the coroutine: pc (where it stands), rid,
\* total (len(rules)), i (index of the current rule), rule (rules[i]; the
\* list is read element by element, so rules[i] is drawn when the loop
\* reaches it), prompt and nchunks (of the pending model call), completed.
\* History of the call, written but never read by the actions:
\*   from, base  the task's status and len(task.results) when it started
\*   cbs         the callback invocations <<review_id, completed, total>>
\*   log         one entry per append to task.results: the rule's index,
\*               the code path (by), the validator's error if it rejected
\*               the output (invalid), how the output was obtained (llm),
\*               whether retrieval ran and returned nothing (nochunks)
\*   raised      the exceptions the per-rule handler caught
\*   escaped     the exception the outer handler caught
IdleCall == [pc |-> "idle", rid |-> 0, total |-> 0, i |-> 0, rule |-> RuleBare, prompt |-> {},
             nchunks |-> 0, completed |-> 0, from |-> PENDING, base |-> 0, cbs |-> <<>>,
             log |-> <<>>, raised |-> <<>>, escaped |-> None]

Init ==
    /\ env \in Envs
    /\ tasks = <<>>
    /\ call = IdleCall
    /\ ncalls = 0
    /\ OthersIdle

\* an executor nothing was asked of
ExecutorIdle ==
    /\ env = [ctx |-> CtxMockEmpty, cb |-> "none", client |-> FALSE]
    /\ tasks = <<>>
    /\ call = IdleCall
    /\ ncalls = 0

(***************************************************************************)
(* The paths of execute_review as functions of (task, call)                *)
(***************************************************************************)
\* executor.py:190-200: append the result, count it, call the callback
OnResult(t, c, result, note) ==
    LET t1 == [t EXCEPT !.results = Append(@, result)]
        c1 == [c EXCEPT !.completed = @ + 1,
                        !.log = Append(@, [idx |-> c.i, by |-> "review", invalid |-> note.invalid,
                                           llm |-> note.llm, nochunks |-> note.nochunks])]
    IN IF env.cb = "none"
       THEN [task |-> t1, call |-> [c1 EXCEPT !.i = @ + 1, !.pc = "loop"]]
       ELSE [task |-> t1,
             call |-> [c1 EXCEPT !.cbs = Append(@, <<c.rid, c1.completed, c.total>>),
                                 !.pc = "callback"]]

\* a faulty variant of OnEscape: task.error is not set
OnEscapeNoError(t, c, exc) ==
    [task |-> [t EXCEPT !.status = FAILED, !.completed_at = TRUE],
     call |-> [c EXCEPT !.pc = "returned", !.escaped = exc]]

\* executor.py:218-224: the outer handler; the coroutine returns the task
OnEscape(t, c, exc) ==
    [task |-> [t EXCEPT !.status = FAILED, !.error = exc, !.completed_at = TRUE],
     call |-> [c EXCEPT !.pc = "returned", !.escaped = exc]]

\* executor.py:202-211: the per-rule handler appends the FAILED result and
\* the loop goes on; an exception raised in the handler escapes
OnRaise(t, c, exc) ==
    LET built == BuildErrorResult(c.rule, exc)
    IN IF built.raises
       THEN OnEscape(t, c, built.exc)
       ELSE [task |-> [t EXCEPT !.results = Append(@, built.result)],
             call |-> [c EXCEPT !.i = @ + 1, !.pc = "loop",
                                !.log = Append(@, [idx |-> c.i, by |-> "handler", invalid |-> None,
                                                   llm |-> "none", nochunks |-> FALSE])]]

\* executor.py:360, 376-378: the mock responder answers unless both the
\* context and the executor hold a client
UsesClient == env.ctx.llm /\ env.client

\* what the history keeps of a validated output
Note(output, how, n) ==
    LET validated == ValidatePromptOutput(output)
    IN [invalid |-> IF validated.valid THEN None ELSE validated.error,
        llm |-> how, nochunks |-> (n = 0)]

NoNote == [invalid |-> None, llm |-> "none", nochunks |-> FALSE]

\* the per-rule handler is entered with exc, at the code place `at`
Caught(c, exc, at) ==
    [c EXCEPT !.raised = Append(@, [idx |-> c.i, exc |-> exc, at |-> at, shape |-> c.rule.shape])]

(***************************************************************************)
(* Actions                                                                 *)
(***************************************************************************)
\* create_review (executor.py:116-150): a fresh review_id, a PENDING task
CreateReview ==
    /\ Len(tasks) < MaxTasks
    /\ tasks' = Append(tasks, NewTask)
    /\ UNCHANGED <<env, call, ncalls, otherVars>>

\* entries delete_task takes out of the table
MaxDeletes == 1

\* delete_task (executor.py:446-451; the cancel route calls it): the entry
\* is removed from the table whatever the task's status, and the review_id
\* is never given out again; False is returned, and nothing changes, for
\* a review_id the table does not hold
DeleteTask(rid) ==
    /\ rid \in ReviewIds
    /\ Cardinality({r \in DOMAIN tasks : ~tasks[r].listed}) < MaxDeletes
    /\ tasks' = IF rid \in DOMAIN tasks /\ tasks[rid].listed
                THEN [tasks EXCEPT ![rid].listed = FALSE]
                ELSE tasks
    /\ UNCHANGED <<env, call, ncalls, otherVars>>

\* get_task (executor.py:435-437): a lookup, no state is written
GetTask(rid) ==
    /\ rid \in ReviewIds
    /\ UNCHANGED vars

\* list_tasks (executor.py:439-444): a filtered copy, no state is written
ListTasks(status) ==
    /\ status \in ReviewStatus \cup {None}
    /\ UNCHANGED vars

\* execute_review on an unknown review_id raises ValueError (executor.py:171-173)
ExecuteReviewNotFound(rid) ==
    /\ call.pc \in {"idle", "returned"}
    /\ ncalls < MaxCalls
    /\ IF rid \in DOMAIN tasks THEN ~tasks[rid].listed ELSE TRUE
    /\ ncalls' = ncalls + 1
    /\ UNCHANGED <<env, tasks, call, otherVars>>

\* execute_review up to the loop (executor.py:171-181)
ExecuteReviewStart(rid, n) ==
    /\ call.pc \in {"idle", "returned"}
    /\ ncalls < MaxCalls
    /\ rid \in DOMAIN tasks
    /\ tasks[rid].listed
    /\ tasks' = [tasks EXCEPT ![rid].status = RUNNING, ![rid].started_at = TRUE]
    /\ call' = [IdleCall EXCEPT !.pc = "loop", !.rid = rid, !.total = n,
                                !.from = tasks[rid].status,
                                !.base = Len(tasks[rid].results)]
    /\ ncalls' = ncalls + 1
    /\ UNCHANGED <<env, otherVars>>

\* one iteration of the loop up to its first await (executor.py:184-200)
RuleStep(rule) ==
    /\ call.pc = "loop"
    /\ call.i < call.total
    /\ LET c == [call EXCEPT !.rule = rule]
           t == tasks[call.rid]
           pre == ReviewToPrompt(rule, env.ctx)
           mock == MockLlmResponse(pre.prompt)
           next == IF pre.kind = "raise" THEN OnRaise(t, Caught(c, pre.exc, "review"), pre.exc)
                   ELSE IF pre.kind = "result" THEN OnResult(t, c, pre.result, NoNote)
                   ELSE IF UsesClient
                        THEN [task |-> t,
                              call |-> [c EXCEPT !.pc = "llm", !.prompt = pre.prompt,
                                                 !.nchunks = pre.nchunks]]
                        ELSE OnResult(t, c, ResultOfOutput(rule, mock),
                                      Note(mock, "mock", pre.nchunks))
       IN /\ tasks' = [tasks EXCEPT ![call.rid] = next.task]
          /\ call' = next.call
    /\ UNCHANGED <<env, ncalls, otherVars>>

\* the model call returns a text (executor.py:363-371, 269-292)
LlmReturns(output) ==
    /\ call.pc = "llm"
    /\ LET next == OnResult(tasks[call.rid], call, ResultOfOutput(call.rule, output),
                            Note(output, "returned", call.nchunks))
       IN /\ tasks' = [tasks EXCEPT ![call.rid] = next.task]
          /\ call' = next.call
    /\ UNCHANGED <<env, ncalls, otherVars>>

\* the model call raises: the mock responder answers (executor.py:372-375)
LlmRaises ==
    /\ call.pc = "llm"
    /\ LET mock == MockLlmResponse(call.prompt)
           next == OnResult(tasks[call.rid], call, ResultOfOutput(call.rule, mock),
                            Note(mock, "raised", call.nchunks))
       IN /\ tasks' = [tasks EXCEPT ![call.rid] = next.task]
          /\ call' = next.call
    /\ UNCHANGED <<env, ncalls, otherVars>>

\* the awaited callback returns (executor.py:195-200)
CallbackReturns ==
    /\ call.pc = "callback"
    /\ env.cb = "async"
    /\ call' = [call EXCEPT !.i = @ + 1, !.pc = "loop"]
    /\ UNCHANGED <<env, tasks, ncalls, otherVars>>

\* the callback raises, or its return value cannot be awaited: the per-rule
\* handler runs (executor.py:195-211)
CallbackRaises ==
    /\ call.pc = "callback"
    /\ env.cb \in {"async_raises", "sync"}
    /\ LET exc == IF env.cb = "sync" THEN ExcAwaitNone ELSE ExcCallback
           next == OnRaise(tasks[call.rid], Caught(call, exc, "callback"), exc)
       IN /\ tasks' = [tasks EXCEPT ![call.rid] = next.task]
          /\ call' = next.call
    /\ UNCHANGED <<env, ncalls, otherVars>>

\* the loop is over (executor.py:213-224)
ExecuteReviewFinish ==
    /\ call.pc = "loop"
    /\ call.i = call.total
    /\ tasks' = [tasks EXCEPT ![call.rid].status = COMPLETED, ![call.rid].completed_at = TRUE]
    /\ call' = [call EXCEPT !.pc = "returned"]
    /\ UNCHANGED <<env, ncalls, otherVars>>

Next ==
    \/ CreateReview
    \/ \E rid \in ReviewIds : DeleteTask(rid)
    \/ \E rid \in ReviewIds : GetTask(rid)
    \/ \E status \in ReviewStatus \cup {None} : ListTasks(status)
    \/ \E rid \in ReviewIds : ExecuteReviewNotFound(rid)
    \/ \E rid \in ReviewIds, n \in 0..MaxRules : ExecuteReviewStart(rid, n)
    \/ \E rule \in RuleUniverse : RuleStep(rule)
    \/ \E output \in LlmOutputs : LlmReturns(output)
    \/ LlmRaises
    \/ CallbackReturns
    \/ CallbackRaises
    \/ ExecuteReviewFinish

Spec == Init /\ [][Next]_vars

(***************************************************************************)
(* Properties of execute_review                                            *)
(***************************************************************************)
\* the result the current call appended with its j-th append
Res(j) == tasks[call.rid].results[call.base + j]

Started == call.pc # "idle"

AllowedEdges == {<<PENDING, RUNNING>>, <<RUNNING, COMPLETED>>, <<RUNNING, FAILED>>}

\* C1, first part: the task is RUNNING while the rules are processed
C1_RunningWhileProcessing ==
    call.pc \in {"loop", "llm", "callback"} => tasks[call.rid].status = RUNNING

\* C1, second part: execute_review returns with the task COMPLETED or FAILED
C1_ReturnsTerminal ==
    call.pc = "returned" => tasks[call.rid].status \in {COMPLETED, FAILED}

\* C1, third part: a task's status changes only along PENDING->RUNNING,
\* RUNNING->COMPLETED and RUNNING->FAILED
C1_OnlyAllowedEdges ==
    [][\A r \in DOMAIN tasks :
          tasks'[r].status # tasks[r].status
          => <<tasks[r].status, tasks'[r].status>> \in AllowedEdges]_vars

\* C1: every execute_review call on a known review_id sets the task RUNNING
\* before any rule is processed, returns with the task COMPLETED or FAILED,
\* and changes the status only along PENDING->RUNNING, RUNNING->COMPLETED,
\* RUNNING->FAILED
C1_ExecuteReviewStateMachine ==
    /\ []C1_RunningWhileProcessing
    /\ []C1_ReturnsTerminal
    /\ C1_OnlyAllowedEdges

\* C2: once a task is COMPLETED or FAILED, no call changes its status again
C2_TerminalIsFinal ==
    [][\A r \in DOMAIN tasks :
          tasks[r].status \in {COMPLETED, FAILED} => tasks'[r].status = tasks[r].status]_vars

\* the appends the per-rule handler made for the k-th caught exception
HandlerEntries(k) ==
    {j \in 1..Len(call.log) :
        call.log[j].idx = call.raised[k].idx /\ call.log[j].by = "handler"}

\* the k-th caught exception became exactly one FAILED result carrying the
\* exception text, and the loop went on to the next rule
Isolated(k) ==
    /\ Cardinality(HandlerEntries(k)) = 1
    /\ \A j \in HandlerEntries(k) :
          /\ Res(j).status = "FAILED"
          /\ Res(j).error = call.raised[k].exc
    /\ call.i > call.raised[k].idx

\* C3: whenever processing a rule raises, one FAILED result with the
\* exception text is recorded, the loop goes on, and the task ends
\* COMPLETED, not FAILED.  The handler of a rule that is no mapping raises
\* at its own rule.get (executor.py:204-206): nothing is recorded for the
\* rule, the later rules are not processed and the task ends FAILED
C3_IsolationEveryRule ==
    Started =>
        /\ \A k \in 1..Len(call.raised) : Isolated(k)
        /\ (call.pc = "returned" /\ call.raised # <<>>
              => tasks[call.rid].status = COMPLETED)

\* what the handler does isolate: the exceptions of the rules that are
\* mappings; the task ends COMPLETED, with every rule processed, when every
\* exception was raised for such a rule
C3_IsolationMappingRule ==
    Started =>
        /\ \A k \in 1..Len(call.raised) : call.raised[k].shape = "dict" => Isolated(k)
        /\ (/\ call.pc = "returned"
            /\ \A k \in 1..Len(call.raised) : call.raised[k].shape = "dict")
              => /\ tasks[call.rid].status = COMPLETED
                 /\ call.i = call.total

\* C4: a call that started from PENDING and returned COMPLETED left exactly
\* len(rules) results, the j-th being the outcome of the j-th rule
C4_OneResultPerRule ==
    (call.pc = "returned" /\ call.from = PENDING /\ tasks[call.rid].status = COMPLETED)
      => /\ Len(tasks[call.rid].results) = call.total
         /\ Len(call.log) = call.total
         /\ \A j \in 1..Len(call.log) : call.log[j].idx = j - 1

\* C5: every result of every task with status MISSING has empty evidence
C5_MissingHasNoEvidence ==
    \A r \in DOMAIN tasks : \A k \in 1..Len(tasks[r].results) :
        tasks[r].results[k].status = "MISSING" => tasks[r].results[k].evidence = <<>>

\* C6: when the validator rejects a rule's output, the result recorded by
\* the rule's review is FAILED, carries the validator's error and no
\* evidence; the review did not raise, and the loop goes on
C6_InvalidOutputFailsClosed ==
    Started =>
        \A j \in 1..Len(call.log) :
            call.log[j].invalid # None =>
                /\ call.log[j].by = "review"
                /\ Res(j).status = "FAILED"
                /\ Res(j).error = call.log[j].invalid
                /\ Res(j).evidence = <<>>
                /\ ~\E k \in 1..Len(call.raised) :
                       call.raised[k].idx = call.log[j].idx /\ call.raised[k].at = "review"
                /\ \/ call.i > call.log[j].idx
                   \/ call.pc = "callback" /\ call.i = call.log[j].idx

\* the validator rejected the output of the first rule and the second rule
\* was reviewed after it
C6_Witness ==
    /\ Started
    /\ \E j \in 1..Len(call.log) :
          /\ call.log[j].invalid = ErrMissing("reason")
          /\ call.log[j].idx = 0
          /\ \E j2 \in 1..Len(call.log) : call.log[j2].idx = 1 /\ call.log[j2].by = "review"

\* C7: when the model call raises, the rule's result is FAILED
C7_ModelErrorIsFailedResult ==
    Started =>
        \A j \in 1..Len(call.log) : call.log[j].llm = "raised" => Res(j).status = "FAILED"

\* C8: with the mock responder, a rule whose retrieval yields no chunks gets
\* a MISSING result without evidence
C8_NoChunksIsMissing ==
    Started =>
        \A j \in 1..Len(call.log) :
            (call.log[j].llm = "mock" /\ call.log[j].nochunks)
              => Res(j).status = "MISSING" /\ Res(j).evidence = <<>>

\* C9: a call with a callback that returned COMPLETED invoked the callback
\* len(rules) times, with completed = 1, 2, ..., len(rules)
C9_CallbackAfterEveryRule ==
    (call.pc = "returned" /\ env.cb # "none" /\ tasks[call.rid].status = COMPLETED)
      => /\ Len(call.cbs) = call.total
         /\ \A k \in 1..Len(call.cbs) : call.cbs[k] = <<call.rid, k, call.total>>

\* C10: when an exception escapes the per-rule handler, execute_review
\* returns with the task FAILED, task.error the exception text and
\* completed_at set, and the results appended so far are kept
C10_EscapeFailsTask ==
    call.escaped # None =>
        /\ call.pc = "returned"
        /\ tasks[call.rid].status = FAILED
        /\ tasks[call.rid].error = call.escaped
        /\ tasks[call.rid].completed_at
        /\ Len(tasks[call.rid].results) = call.base + Len(call.log)
        /\ \A j \in 1..Len(call.log) : Res(j).status \in {"PASS", "RISK", "MISSING", "FAILED"}

\* the handler raised for the second rule, after the first rule's result
\* was appended
C10_Witness ==
    /\ call.escaped = ExcNoGet
    /\ call.i = 1
    /\ Len(call.log) >= 1

(***************************************************************************)
(* Several execute_review coroutines on one event loop                     *)
(* (executor.py:152-224; review_routes.py:231-241 starts one per request)  *)
(***************************************************************************)
\* coroutines the event loop runs at once
MaxCoroutines == 2

\* what happened to a coroutine, in order: the rule the loop read, the
\* outcome of the model call, the callback, the end of the loop
Event(ev, rule, out) == [ev |-> ev, rule |-> rule, out |-> out]

\* a coroutine not started; hist is its history of events
IdleCoroutine == IdleCall @@ [hist |-> <<>>]

\* a faulty variant of TaskOf: the coroutine writes to the task created last
TaskOfLatest(c) == Len(tasks)

\* executor.py:171: the local `task` the coroutine writes to
TaskOf(c) == c.rid

\* executor.py:177-181
StartStep(t, c, rid, n) ==
    [task |-> [t EXCEPT !.status = RUNNING, !.started_at = TRUE],
     call |-> [c EXCEPT !.pc = "loop", !.rid = rid, !.total = n,
                        !.from = t.status, !.base = Len(t.results)]]

\* executor.py:184-200: one iteration up to its first suspension
ReviewStep(t, c0, rule) ==
    LET c == [c0 EXCEPT !.rule = rule]
        pre == ReviewToPrompt(rule, env.ctx)
        mock == MockLlmResponse(pre.prompt)
    IN IF pre.kind = "raise" THEN OnRaise(t, Caught(c, pre.exc, "review"), pre.exc)
       ELSE IF pre.kind = "result" THEN OnResult(t, c, pre.result, NoNote)
       ELSE IF UsesClient
            THEN [task |-> t,
                  call |-> [c EXCEPT !.pc = "llm", !.prompt = pre.prompt,
                                     !.nchunks = pre.nchunks]]
            ELSE OnResult(t, c, ResultOfOutput(rule, mock), Note(mock, "mock", pre.nchunks))

\* executor.py:363-375: the model call returns `out`, or raises
LlmStep(t, c, raises, out) ==
    LET mock == MockLlmResponse(c.prompt)
    IN IF raises
       THEN OnResult(t, c, ResultOfOutput(c.rule, mock), Note(mock, "raised", c.nchunks))
       ELSE OnResult(t, c, ResultOfOutput(c.rule, out), Note(out, "returned", c.nchunks))

\* executor.py:194-211: the awaited callback returns or raises
CallbackStep(t, c) ==
    IF env.cb = "async"
    THEN [task |-> t, call |-> [c EXCEPT !.i = @ + 1, !.pc = "loop"]]
    ELSE LET exc == IF env.cb = "sync" THEN ExcAwaitNone ELSE ExcCallback
         IN OnRaise(t, Caught(c, exc, "callback"), exc)

\* executor.py:213-224
FinishStep(t, c) ==
    [task |-> [t EXCEPT !.status = COMPLETED, !.completed_at = TRUE],
     call |-> [c EXCEPT !.pc = "returned"]]

\* the coroutine c takes a step whose outcome is next
CoWrites(k, next, event) ==
    /\ tasks' = [tasks EXCEPT ![TaskOf(calls[k])] = next.task]
    /\ calls' = [calls EXCEPT ![k] = [next.call EXCEPT !.hist = Append(@, event)]]
    /\ UNCHANGED <<env, call, ncalls, store, pipeline, chunker, validator, restVars>>

\* execute_review_background (review_routes.py:89-142), the task the
\* route start_review hands to the event loop, once per review: the
\* document lookup or the construction of the context raises before
\* execute_review is called, and the handler of the background task marks
\* the task it finds in the table: started_at and completed_at stay unset
CoBackgroundFails(rid) ==
    /\ rid \in DOMAIN tasks
    /\ tasks[rid].listed
    /\ tasks[rid].status = PENDING
    /\ \A k \in DOMAIN calls : calls[k].rid # rid
    /\ tasks' = [tasks EXCEPT ![rid].status = FAILED, ![rid].error = ExcSetup]
    /\ UNCHANGED <<env, call, ncalls, otherVars>>

\* execute_review is called (review_routes.py:131-136 by the background
\* task, whose setup did not raise) for a task the table holds and no
\* other coroutine was started on
CoExecuteReviewStart(rid, n) ==
    /\ Len(calls) < MaxCoroutines
    /\ rid \in DOMAIN tasks
    /\ tasks[rid].listed
    /\ tasks[rid].status = PENDING
    /\ \A k \in DOMAIN calls : calls[k].rid # rid
    /\ LET next == StartStep(tasks[rid], IdleCoroutine, rid, n)
       IN /\ tasks' = [tasks EXCEPT ![rid] = next.task]
          /\ calls' = Append(calls, next.call)
    /\ UNCHANGED <<env, call, ncalls, store, pipeline, chunker, validator, restVars>>

CoRuleStep(k, rule) ==
    /\ k \in DOMAIN calls
    /\ calls[k].pc = "loop"
    /\ calls[k].i < calls[k].total
    /\ CoWrites(k, ReviewStep(tasks[TaskOf(calls[k])], calls[k], rule),
                Event("rule", rule, OutPass))

CoLlmReturns(k, output) ==
    /\ k \in DOMAIN calls
    /\ calls[k].pc = "llm"
    /\ CoWrites(k, LlmStep(tasks[TaskOf(calls[k])], calls[k], FALSE, output),
                Event("llm", RuleBare, output))

CoLlmRaises(k) ==
    /\ k \in DOMAIN calls
    /\ calls[k].pc = "llm"
    /\ CoWrites(k, LlmStep(tasks[TaskOf(calls[k])], calls[k], TRUE, OutPass),
                Event("llm_raises", RuleBare, OutPass))

CoCallback(k) ==
    /\ k \in DOMAIN calls
    /\ calls[k].pc = "callback"
    /\ CoWrites(k, CallbackStep(tasks[TaskOf(calls[k])], calls[k]),
                Event("callback", RuleBare, OutPass))

CoExecuteReviewFinish(k) ==
    /\ k \in DOMAIN calls
    /\ calls[k].pc = "loop"
    /\ calls[k].i = calls[k].total
    /\ CoWrites(k, FinishStep(tasks[TaskOf(calls[k])], calls[k]),
                Event("finish", RuleBare, OutPass))

Coroutines == 1..MaxCoroutines

\* the rules the concurrent reviews read: one reviewed with templates, one
\* with tags and a parameter, one whose failure escapes the per-rule handler
CoRules == {RulePlain, Rule45, RuleNone}

NextConcurrent ==
    \/ CreateReview
    \/ \E rid \in ReviewIds : DeleteTask(rid)
    \/ \E rid \in ReviewIds : CoBackgroundFails(rid)
    \/ \E rid \in ReviewIds, n \in 0..MaxRules : CoExecuteReviewStart(rid, n)
    \/ \E k \in Coroutines, rule \in CoRules : CoRuleStep(k, rule)
    \/ \E k \in Coroutines, output \in LlmOutputs : CoLlmReturns(k, output)
    \/ \E k \in Coroutines : CoLlmRaises(k)
    \/ \E k \in Coroutines : CoCallback(k)
    \/ \E k \in Coroutines : CoExecuteReviewFinish(k)

SpecConcurrent == Init /\ [][NextConcurrent]_vars

\* the same events applied to a task nothing else touches
RECURSIVE Replay(_, _)
Replay(s, events) ==
    IF events = <<>> THEN s
    ELSE LET e == Head(events)
             next == IF e.ev = "rule" THEN ReviewStep(s.task, s.call, e.rule)
                     ELSE IF e.ev = "llm" THEN LlmStep(s.task, s.call, FALSE, e.out)
                     ELSE IF e.ev = "llm_raises" THEN LlmStep(s.task, s.call, TRUE, e.out)
                     ELSE IF e.ev = "callback" THEN CallbackStep(s.task, s.call)
                     ELSE FinishStep(s.task, s.call)
         IN Replay(next, Tail(events))

\* the task of coroutine c as it is when c runs alone on a fresh task
Alone(c) == Replay(StartStep(NewTask, IdleCoroutine, c.rid, c.total), c.hist).task

\* C11: whatever the interleaving of the coroutines and of create_review,
\* the task of every coroutine has the status and the results it has when
\* the coroutine runs alone with the same rules and the same outcomes
C11_ConcurrentTasksIndependent ==
    \A k \in DOMAIN calls :
        /\ tasks[calls[k].rid].status = Alone(calls[k]).status
        /\ tasks[calls[k].rid].results = Alone(calls[k]).results

\* two coroutines are in flight on two tasks, each with a result recorded
C11_Witness ==
    /\ Len(calls) = 2
    /\ \A k \in DOMAIN calls : calls[k].pc \in {"loop", "llm", "callback"}
                                /\ Len(tasks[calls[k].rid].results) >= 1
    /\ calls[1].rid # calls[2].rid

(***************************************************************************)
(* The vector stores (vector/vector_store.py)                              *)
(***************************************************************************)
\* FAISSVectorStore(embedding_dimension=...)
EmbeddingDimension == 2

\* documents in one add_documents call
MaxBatch == 2

\* rows the inner-product index may hold
MaxIndexRows == 4

\* Optional[List[float]]
NullEmbedding == [null |-> TRUE, v |-> <<>>]

Embedding(v) == [null |-> FALSE, v |-> v]

\* embeddings of the configured dimension, and one that is longer
Vectors == {<<1, 0>>, <<1, 1>>, <<1, 0, 0>>}

\* vector_store.py:15-24
VectorDocument(chunk_id, doc_id, clause_hint, embedding) ==
    [chunk_id |-> chunk_id, doc_id |-> doc_id, clause_hint |-> clause_hint,
     embedding |-> embedding]

ChunkIds == {"c1", "c2", "c3"}

DocIds == {"dA", "dB"}

ClauseHints == {"payment", "other"}

\* the documents handed to add_documents: chunks c1 and c2 of document dA,
\* chunk c3 of document dB, each with any embedding or none
DocUniverse ==
    {VectorDocument(c, IF c = "c3" THEN "dB" ELSE "dA",
                    IF c = "c2" THEN "other" ELSE "payment", e) :
        c \in ChunkIds, e \in {NullEmbedding} \cup {Embedding(v) : v \in Vectors}}

\* the second document of a batch of two is chunk c1
Batches ==
    {docs \in UNION {[1..n -> DocUniverse] : n \in 1..MaxBatch} :
        Len(docs) > 1 => docs[Len(docs)].chunk_id = "c1"}

\* what a call gave back: a value, or an exception
Ret(value) == [raises |-> FALSE, value |-> value]

Raises == [raises |-> TRUE, value |-> <<>>]

\* a faulty variant of Put: the document is stored beside the one of its key
PutAppends(documents, doc) == Append(documents, doc)

\* dict[chunk_id] = doc: a known key keeps its place, a new one goes last
Put(documents, doc) ==
    IF \E i \in DOMAIN documents : documents[i].chunk_id = doc.chunk_id
    THEN [i \in DOMAIN documents |->
            IF documents[i].chunk_id = doc.chunk_id THEN doc ELSE documents[i]]
    ELSE Append(documents, doc)

\* del dict[chunk_id]
Remove(documents, chunk_id) ==
    LET Keep(d) == d.chunk_id # chunk_id IN SelectSeq(documents, Keep)

HasKey(documents, chunk_id) == \E i \in DOMAIN documents : documents[i].chunk_id = chunk_id

\* vector_store.py:80-88 and 321-327: the loop over docs, the same in both
\* stores: a document without embedding is skipped, the others are stored
RECURSIVE StoreDocs(_, _)
StoreDocs(documents, docs) ==
    IF docs = <<>> THEN documents
    ELSE StoreDocs(IF Head(docs).embedding.null THEN documents ELSE Put(documents, Head(docs)),
                   Tail(docs))

\* the embeddings of the batch that are not None, in order
Embedded(docs) == LET NotNull(d) == ~d.embedding.null IN SelectSeq(docs, NotNull)

\* InMemoryVectorStore.add_documents (vector_store.py:69-93)
MemAddDocuments(documents, docs) ==
    [documents |-> StoreDocs(documents, docs), ret |-> Ret(Len(Embedded(docs)))]

\* InMemoryVectorStore._rebuild_embeddings (vector_store.py:95-103), called
\* at the end of add_documents and of delete_document
RebuildEmbeddings(documents) ==
    [embeddings |-> [i \in DOMAIN documents |-> documents[i].embedding.v],
     chunk_ids |-> [i \in DOMAIN documents |-> documents[i].chunk_id]]

\* np.array(embeddings, dtype=np.float32) raises for rows of unequal length
Ragged(docs) == \E i, j \in DOMAIN docs : Len(docs[i].embedding.v) # Len(docs[j].embedding.v)

\* FAISSVectorStore.add_documents (vector_store.py:306-344); index.add
\* asserts that the rows have the dimension of the index
FaissAddDocuments(documents, ntotal, lib, docs) ==
    LET stored == StoreDocs(documents, docs)
        embeddings == Embedded(docs)
    IN IF embeddings = <<>>
       THEN [documents |-> stored, ntotal |-> ntotal, ret |-> Ret(0)]
       ELSE IF Ragged(embeddings)
       THEN [documents |-> stored, ntotal |-> ntotal, ret |-> Raises]
       ELSE IF lib /\ Len(embeddings[1].embedding.v) # EmbeddingDimension
       THEN [documents |-> stored, ntotal |-> ntotal, ret |-> Raises]
       ELSE [documents |-> stored,
             ntotal |-> IF lib THEN ntotal + Len(embeddings) ELSE ntotal,
             ret |-> Ret(Len(embeddings))]

\* delete_document (vector_store.py:191-205, 429-434)
DeleteDocument(documents, chunk_id) ==
    [documents |-> Remove(documents, chunk_id), ret |-> Ret(HasKey(documents, chunk_id))]

\* delete_by_doc_id (vector_store.py:207-227, 436-448)
DeleteByDocId(documents, doc_id) ==
    LET Other(d) == d.doc_id # doc_id
        kept == SelectSeq(documents, Other)
    IN [documents |-> kept, ret |-> Ret(Len(documents) - Len(kept))]

RECURSIVE Dot(_, _)
Dot(a, b) == IF a = <<>> THEN 0 ELSE Head(a) * Head(b) + Dot(Tail(a), Tail(b))

\* The cosine dot/(|a||b| + 1e-8) (vector_store.py:174-175, 423) kept exact:
\* its sign, and its square as the fraction num/den.  A zero vector scores 0.
CosineSimilarity(a, b) ==
    LET dot == Dot(a, b)
        den == Dot(a, a) * Dot(b, b)
    IN IF den = 0 \/ dot = 0 THEN [sign |-> 0, num |-> 0, den |-> 1]
       ELSE [sign |-> IF dot > 0 THEN 1 ELSE -1, num |-> dot * dot, den |-> den]

\* score x > score y
Greater(x, y) == x.sign * x.num * y.den > y.sign * y.num * x.den

\* vector_store.py:39-47
SearchResult(doc, score) ==
    [chunk_id |-> doc.chunk_id, doc_id |-> doc.doc_id, clause_hint |-> doc.clause_hint,
     score |-> score]

\* `if doc_filter and ...`: None and the empty string filter nothing
Active(filter) == filter # None /\ filter # ""

\* vector_store.py:138-141, 395-398
Passes(doc, doc_filter, clause_filter) ==
    /\ Active(doc_filter) => doc.doc_id = doc_filter
    /\ Active(clause_filter) => doc.clause_hint = clause_filter

\* list.sort(key=score, reverse=True) is stable: a result goes behind the
\* results that score the same and came before it
RECURSIVE InsertByScore(_, _)
InsertByScore(sorted, r) ==
    IF sorted = <<>> THEN <<r>>
    ELSE IF Greater(r.score, Head(sorted).score) THEN <<r>> \o sorted
    ELSE <<Head(sorted)>> \o InsertByScore(Tail(sorted), r)

RECURSIVE SortInto(_, _)
SortInto(sorted, results) ==
    IF results = <<>> THEN sorted
    ELSE SortInto(InsertByScore(sorted, Head(results)), Tail(results))

\* a faulty variant of SortByScore: the results stay in storage order
StorageOrder(results) == results

\* vector_store.py:154, 414
SortByScore(results) == SortInto(<<>>, results)

\* the documents that pass the filters, scored, sorted, cut to top_k
Ranked(documents, query, top_k, doc_filter, clause_filter) ==
    LET Pass(d) == Passes(d, doc_filter, clause_filter)
        matching == SelectSeq(documents, Pass)
        results == [i \in DOMAIN matching |->
                      SearchResult(matching[i], CosineSimilarity(matching[i].embedding.v, query))]
    IN Take(SortByScore(results), top_k)

\* InMemoryVectorStore.search (vector_store.py:105-156): the scores of all
\* stored embeddings are computed at once, which raises unless they all
\* have the length of the query
MemSearch(documents, query, top_k, doc_filter, clause_filter) ==
    IF documents = <<>> THEN Ret(<<>>)
    ELSE IF \E i \in DOMAIN documents : Len(documents[i].embedding.v) # Len(query)
    THEN Raises
    ELSE Ret(Ranked(documents, query, top_k, doc_filter, clause_filter))

\* FAISSVectorStore.search (vector_store.py:346-416): the index is asked
\* first for min(top_k * 2, ntotal) rows (its answer is dropped); it
\* asserts the dimension of the query and that the number of rows asked
\* for is positive; then every stored document that passes the filters is
\* scored
FaissSearch(documents, ntotal, lib, query, top_k, doc_filter, clause_filter) ==
    IF documents = <<>> THEN Ret(<<>>)
    ELSE IF lib /\ ntotal > 0 /\ (Len(query) # EmbeddingDimension \/ top_k = 0) THEN Raises
    ELSE IF \E i \in DOMAIN documents :
               /\ Passes(documents[i], doc_filter, clause_filter)
               /\ Len(documents[i].embedding.v) # Len(query)
    THEN Raises
    ELSE Ret(Ranked(documents, query, top_k, doc_filter, clause_filter))

Queries == {<<1, 0>>, <<1, 0, 0>>}

TopKs == {0, 1, 3}

\* the contents of the in-memory store that save is called on
SavedStores == {<<VectorDocument("c1", "dA", "payment", Embedding(<<1, 0>>))>>}

\* calls explored after a load
MaxAfterLoad == 1

DocFilters == {None, "", "dA"}

ClauseFilters == {None, "payment"}

\* The last operation and what each store gave back; nstored is the number
\* of records an add_documents call wrote.
Called(op, query, top_k, doc_filter, clause_filter, nstored, mem, faiss) ==
    [op |-> op, query |-> query, top_k |-> top_k, doc_filter |-> doc_filter,
     clause_filter |-> clause_filter, nstored |-> nstored, mem |-> mem, faiss |-> faiss]

NotCalled == Called("none", <<>>, 0, None, None, 0, Ret(0), Ret(0))

\* An InMemoryVectorStore (documents, embeddings, chunk_ids) and a
\* FAISSVectorStore (documents, index.ntotal, use_faiss), both empty;
\* latest is the history of the calls: for every chunk_id not deleted since,
\* the document added last
\* the file save writes: absent, or the records pickled
NoFile == [exists |-> FALSE, documents |-> <<>>]

NewStores(use_faiss) ==
    [mem |-> <<>>, embeddings |-> <<>>, chunk_ids |-> <<>>,
     faiss |-> <<>>, ntotal |-> 0, use_faiss |-> use_faiss, latest |-> {},
     file |-> NoFile, loaded |-> FALSE, since |-> 0, last |-> NotCalled]

\* the history after add_documents(docs)
RECURSIVE LatestAfterAdd(_, _)
LatestAfterAdd(latest, docs) ==
    IF docs = <<>> THEN latest
    ELSE LatestAfterAdd(
             IF Head(docs).embedding.null THEN latest
             ELSE {d \in latest : d.chunk_id # Head(docs).chunk_id} \cup {Head(docs)},
             Tail(docs))

InitStore ==
    /\ ExecutorIdle /\ CallsIdle /\ PipelineIdle /\ ChunkerIdle /\ ValidatorIdle /\ RestIdle
    /\ store \in {NewStores(b) : b \in BOOLEAN}

storeFrame == <<env, tasks, call, ncalls, calls, pipeline, chunker, validator, restVars>>

\* the calls after a load are counted
WithinCalls == store.loaded => store.since < MaxAfterLoad

Since == IF store.loaded THEN store.since + 1 ELSE 0

\* add_documents(docs) on both stores
AddDocuments(docs) ==
    /\ store.ntotal + Len(docs) <= MaxIndexRows
    /\ WithinCalls
    /\ LET m == MemAddDocuments(store.mem, docs)
           f == FaissAddDocuments(store.faiss, store.ntotal, store.use_faiss, docs)
           written == {d.chunk_id : d \in {docs[i] : i \in DOMAIN docs}
                                          \ {x \in DocUniverse : x.embedding.null}}
       IN store' = [store EXCEPT !.mem = m.documents,
                                 !.embeddings = RebuildEmbeddings(m.documents).embeddings,
                                 !.chunk_ids = RebuildEmbeddings(m.documents).chunk_ids,
                                 !.faiss = f.documents,
                                 !.ntotal = f.ntotal,
                                 !.latest = LatestAfterAdd(store.latest, docs),
                                 !.since = Since,
                                 !.last = Called("add_documents", <<>>, 0, None, None,
                                                 Cardinality(written), m.ret, f.ret)]
    /\ UNCHANGED storeFrame

\* delete_document(chunk_id) on both stores
DeleteDocumentCall(chunk_id) ==
    /\ WithinCalls
    /\ LET m == DeleteDocument(store.mem, chunk_id)
           f == DeleteDocument(store.faiss, chunk_id)
       IN store' = [store EXCEPT !.mem = m.documents,
                                 !.embeddings = RebuildEmbeddings(m.documents).embeddings,
                                 !.chunk_ids = RebuildEmbeddings(m.documents).chunk_ids,
                                 !.faiss = f.documents,
                                 !.latest = {d \in store.latest : d.chunk_id # chunk_id},
                                 !.since = Since,
                                 !.last = Called("delete_document", <<>>, 0, None, None, 0,
                                                 m.ret, f.ret)]
    /\ UNCHANGED storeFrame

\* delete_by_doc_id(doc_id) on both stores
DeleteByDocIdCall(doc_id) ==
    /\ WithinCalls
    /\ LET m == DeleteByDocId(store.mem, doc_id)
           f == DeleteByDocId(store.faiss, doc_id)
       IN store' = [store EXCEPT !.mem = m.documents,
                                 !.embeddings = RebuildEmbeddings(m.documents).embeddings,
                                 !.chunk_ids = RebuildEmbeddings(m.documents).chunk_ids,
                                 !.faiss = f.documents,
                                 !.latest = {d \in store.latest : d.doc_id # doc_id},
                                 !.since = Since,
                                 !.last = Called("delete_by_doc_id", <<>>, 0, None, None, 0,
                                                 m.ret, f.ret)]
    /\ UNCHANGED storeFrame

\* InMemoryVectorStore.save(path) (vector_store.py:252-265), on one path:
\* the records are written to the file; the FAISS store has no save and
\* no load, and is not called
Save ==
    /\ WithinCalls
    /\ ~store.file.exists
    /\ store.mem \in SavedStores
    /\ store' = [store EXCEPT !.file = [exists |-> TRUE, documents |-> store.mem],
                              !.since = Since,
                              !.last = Called("save", <<>>, 0, None, None, 0, Ret(0), Ret(0))]
    /\ UNCHANGED storeFrame

\* InMemoryVectorStore.load(path) (vector_store.py:267-279): open raises
\* when the file is absent; else the records of the store are replaced by
\* those of the file, and the lists are rebuilt from them
Load ==
    /\ ~store.loaded
    /\ store' = IF ~store.file.exists
                THEN [store EXCEPT !.last = Called("load", <<>>, 0, None, None, 0,
                                                   Raises, Ret(0))]
                ELSE [store EXCEPT !.mem = store.file.documents,
                                   !.embeddings = RebuildEmbeddings(store.file.documents).embeddings,
                                   !.chunk_ids = RebuildEmbeddings(store.file.documents).chunk_ids,
                                   !.loaded = TRUE,
                                   !.last = Called("load", <<>>, 0, None, None, 0,
                                                   Ret(0), Ret(0))]
    /\ UNCHANGED storeFrame

\* search(query, top_k, doc_filter, clause_filter) on both stores
Search(query, top_k, doc_filter, clause_filter) ==
    /\ WithinCalls
    /\ store' = [store EXCEPT !.since = Since, !.last =
                    Called("search", query, top_k, doc_filter, clause_filter, 0,
                           MemSearch(store.mem, query, top_k, doc_filter, clause_filter),
                           FaissSearch(store.faiss, store.ntotal, store.use_faiss,
                                       query, top_k, doc_filter, clause_filter))]
    /\ UNCHANGED storeFrame

NextStore ==
    \/ \E docs \in Batches : AddDocuments(docs)
    \/ \E chunk_id \in ChunkIds : DeleteDocumentCall(chunk_id)
    \/ \E doc_id \in DocIds : DeleteByDocIdCall(doc_id)
    \/ \E query \in Queries, top_k \in TopKs, doc_filter \in DocFilters,
          clause_filter \in ClauseFilters : Search(query, top_k, doc_filter, clause_filter)
    \/ Save
    \/ Load

SpecStore == InitStore /\ [][NextStore]_vars

\* what the stores returned to the last search
Answers == {r \in {store.last.mem, store.last.faiss} : ~r.raises}

Sorted(results) ==
    \A i, j \in DOMAIN results : i < j => ~Greater(results[j].score, results[i].score)

\* C12 as stated: every search returns its results by non-increasing score,
\* and a doc_filter (clause_filter) that is given, the empty string
\* included, is the doc_id (clause_hint) of every result
C12_RankedAndFilteredWhenGiven ==
    store.last.op = "search" =>
        \A r \in Answers :
            /\ Sorted(r.value)
            /\ store.last.doc_filter # None =>
                   \A i \in DOMAIN r.value : r.value[i].doc_id = store.last.doc_filter
            /\ store.last.clause_filter # None =>
                   \A i \in DOMAIN r.value : r.value[i].clause_hint = store.last.clause_filter

\* C12, amended: every search returns its results by non-increasing score,
\* and a filter that is a non-empty string is the doc_id (clause_hint) of
\* every result
C12_RankedAndFiltered ==
    store.last.op = "search" =>
        \A r \in Answers :
            /\ Sorted(r.value)
            /\ Active(store.last.doc_filter) =>
                   \A i \in DOMAIN r.value : r.value[i].doc_id = store.last.doc_filter
            /\ Active(store.last.clause_filter) =>
                   \A i \in DOMAIN r.value : r.value[i].clause_hint = store.last.clause_filter

\* both stores answered a filtered search with two results of different
\* score, the better one stored later, while a document of the other
\* doc_id is stored
C12_Witness ==
    /\ store.last.op = "search"
    /\ store.last.doc_filter = "dA"
    /\ Answers = {store.last.mem, store.last.faiss}
    /\ \E i \in DOMAIN store.mem : store.mem[i].doc_id = "dB"
    /\ \A r \in Answers :
          /\ Len(r.value) = 2
          /\ Greater(r.value[1].score, r.value[2].score)
          /\ r.value[1].chunk_id = "c2" /\ r.value[2].chunk_id = "c1"
    /\ store.mem[1].chunk_id = "c1"

SameReturn(a, b) == a.raises = b.raises /\ (~a.raises => a.value = b.value)

ChunkIdsOf(results) == [i \in DOMAIN results |-> results[i].chunk_id]

SameRanking(a, b) ==
    a.raises = b.raises /\ (~a.raises => ChunkIdsOf(a.value) = ChunkIdsOf(b.value))

\* C13: fed the same operations, the FAISS store gives back what the
\* in-memory store gives back (the same counts, the same ranked chunk_ids),
\* with or without the index library, and its search is not empty while a
\* stored record passes the filters
C13_FaissIsDropIn ==
    /\ (~store.loaded /\ store.last.op \in {"add_documents", "delete_document",
                                             "delete_by_doc_id"}) =>
           SameReturn(store.last.faiss, store.last.mem)
    /\ store.last.op = "search" =>
           /\ ~store.loaded => SameRanking(store.last.faiss, store.last.mem)
           /\ (\E i \in DOMAIN store.faiss :
                   Passes(store.faiss[i], store.last.doc_filter, store.last.clause_filter))
              => ~store.last.faiss.raises /\ store.last.faiss.value # <<>>

\* C14: every record stored in either store has an embedding that is not
\* null and has the configured dimension, and add_documents returns the
\* number of records it stored
C14_StoredEmbeddingsHaveDimension ==
    /\ \A documents \in {store.mem, store.faiss} :
          \A i \in DOMAIN documents :
              /\ ~documents[i].embedding.null
              /\ Len(documents[i].embedding.v) = EmbeddingDimension
    /\ store.last.op = "add_documents" =>
          \A r \in Answers : r.value = store.last.nstored

\* the stored records that pass the filters of the last search
Matching(documents) ==
    SelectSeq(documents, LAMBDA d : Passes(d, store.last.doc_filter, store.last.clause_filter))

Min(a, b) == IF a < b THEN a ELSE b

\* the results are min(top_k, m) of the m matching records, and no matching
\* record left out scores higher than one that is returned
TopOfMatching(results, documents) ==
    LET matching == Matching(documents)
        IsReturned(d) == \E i \in DOMAIN results : results[i].chunk_id = d.chunk_id
    IN /\ Len(results) = Min(store.last.top_k, Len(matching))
       /\ \A i \in DOMAIN results :
             \E k \in DOMAIN matching :
                 /\ matching[k].chunk_id = results[i].chunk_id
                 /\ results[i].score = CosineSimilarity(matching[k].embedding.v, store.last.query)
       /\ \A k \in DOMAIN matching :
             ~IsReturned(matching[k]) =>
                 \A i \in DOMAIN results :
                     ~Greater(CosineSimilarity(matching[k].embedding.v, store.last.query),
                              results[i].score)

\* C22: whatever the index holds, a search with a query of the configured
\* dimension and top_k >= 0 returns min(top_k, m) results, m being the
\* number of stored records that pass the active filters, and they are the
\* highest-scoring of those records
C22_FiltersBeforeTruncation ==
    (store.last.op = "search" /\ Len(store.last.query) = EmbeddingDimension) =>
        /\ ~store.last.mem.raises /\ TopOfMatching(store.last.mem.value, store.mem)
        /\ ~store.last.faiss.raises /\ TopOfMatching(store.last.faiss.value, store.faiss)

\* the part of C22 that holds: every search that returns gives the
\* min(top_k, m) highest-scoring matching records
FiltersBeforeTruncationWhenReturned ==
    store.last.op = "search" =>
        /\ ~store.last.mem.raises => TopOfMatching(store.last.mem.value, store.mem)
        /\ ~store.last.faiss.raises => TopOfMatching(store.last.faiss.value, store.faiss)

\* a search cut a matching record off while a record that scores higher
\* and fails the filter is stored
TruncatedAfterFilter ==
    /\ store.last.op = "search"
    /\ store.last.top_k = 1
    /\ store.last.clause_filter = "payment"
    /\ ~store.last.mem.raises /\ ~store.last.faiss.raises
    /\ Len(Matching(store.mem)) = 2
    /\ \E i \in DOMAIN store.mem :
          /\ store.mem[i].clause_hint = "other"
          /\ Greater(CosineSimilarity(store.mem[i].embedding.v, store.last.query),
                     store.last.mem.value[1].score)

NoRepeat(ids) == \A i, j \in DOMAIN ids : i # j => ids[i] # ids[j]

\* the stores whose records come from add_documents and the deletes only:
\* load replaces the records of the in-memory store by those of a file
Fed == IF store.loaded THEN {store.faiss} ELSE {store.mem, store.faiss}

FedAnswers == IF store.loaded THEN Answers \cap {store.last.faiss} ELSE Answers

\* C23: after any sequence of add_documents, delete_document and
\* delete_by_doc_id each store holds, for every chunk_id added and not
\* deleted since, the record added last and no other; a search result has
\* no chunk_id twice and none that is not stored; the chunk_ids and
\* embeddings lists of the in-memory store have the length of its records
\* and correspond to them position by position
C23_UpsertByChunkId ==
    /\ \A documents \in {store.mem, store.faiss} : NoRepeat(ChunkIdsOf(documents))
    /\ \A documents \in Fed : {documents[i] : i \in DOMAIN documents} = store.latest
    /\ Len(store.chunk_ids) = Len(store.mem) /\ Len(store.embeddings) = Len(store.mem)
    /\ \A i \in DOMAIN store.mem :
          /\ store.chunk_ids[i] = store.mem[i].chunk_id
          /\ store.embeddings[i] = store.mem[i].embedding.v
    /\ store.last.op = "search" =>
          /\ \A r \in Answers : NoRepeat(ChunkIdsOf(r.value))
          /\ \A r \in FedAnswers :
                \A i \in DOMAIN r.value :
                    \E d \in store.latest : d.chunk_id = r.value[i].chunk_id

\* chunk c1 was added twice with different embeddings and c2 was added and
\* deleted; a search then returned c1 once and not c2
C23_Witness ==
    /\ store.last.op = "search"
    /\ Answers = {store.last.mem, store.last.faiss}
    /\ store.ntotal >= 3
    /\ ChunkIdsOf(store.mem) = <<"c1">>
    /\ store.mem[1].embedding.v = <<1, 1>>
    /\ \A r \in Answers : ChunkIdsOf(r.value) = <<"c1">>

(***************************************************************************)
(* EmbeddingPipeline.process_chunks (document/embedding.py:239-309)        *)
(***************************************************************************)
\* chunks handed to process_chunks
MaxChunks == 5

\* largest batch_size
MaxBatchSize == 3

\* the chunk with index k of a document; its chunk_id is written k
PipelineChunk(k) ==
    [chunk_id |-> k, doc_id |-> IF k <= 2 THEN "dA" ELSE "dB",
     clause_hint |-> IF k % 2 = 0 THEN "other" ELSE "payment", text |-> k]

\* provider.encode for one text: a vector of as many components as the
\* provider's model has
Encode(text, dimension) == [j \in 1..dimension |-> IF j = 1 THEN text ELSE 1]

\* [0.0] * self.provider.dimension
ZeroVector(dimension) == [j \in 1..dimension |-> 0]

\* chunks[i:i + batch_size], i counted from 0
BatchAt(chunks, i, batch_size) ==
    SubSeq(chunks, i + 1, IF i + batch_size < Len(chunks) THEN i + batch_size ELSE Len(chunks))

\* create_embedding_pipeline (embedding.py:353-391): the vector store is in
\* memory, or a FAISSVectorStore of provider.dimension with the faiss
\* library or without
PipelineStores ==
    {[type |-> "memory", lib |-> FALSE], [type |-> "faiss", lib |-> TRUE],
     [type |-> "faiss", lib |-> FALSE]}

\* create_embedding_pipeline (embedding.py:369-378): the provider is a
\* LocalEmbeddingProvider or an OpenAIEmbeddingProvider
Providers == {"local", "openai"}

\* the number of components of the vectors encode returns: the dimension
\* the provider announced when the store was made, or another
ModelDimensions == {EmbeddingDimension, EmbeddingDimension + 1}

\* provider.dimension after encode has run with the model loaded:
\* LocalEmbeddingProvider takes the dimension of its model when it loads
\* it at the first encode (embedding.py:179-183), OpenAIEmbeddingProvider
\* keeps the one of its construction (embedding.py:74-78)
DimensionAfterLoad(p) == IF p.provider = "local" THEN p.model_dimension ELSE p.dimension

\* the state of a call: the arguments, the vector store and the provider of
\* the pipeline (dimension is provider.dimension, model_dimension the
\* number of components of its encodings), the loop variable i, the
\* locals vectors, all_embeddings and failed_count; failed is the set of
\* offsets of the batches whose encode raised, index and ntotal the
\* documents and the rows of the vector store, result what the call
\* returned
NewPipelineCall(n, batch_size, vector_store, provider, model_dimension) ==
    [pc |-> "loop", chunks |-> [k \in 1..n |-> PipelineChunk(k)], batch_size |-> batch_size,
     vector_store |-> vector_store, provider |-> provider,
     model_dimension |-> model_dimension,
     dimension |-> EmbeddingDimension,
     i |-> 0, vectors |-> <<>>, all_embeddings |-> <<>>, failed_count |-> 0,
     failed |-> {}, index |-> <<>>, ntotal |-> 0,
     result |-> [vectors |-> <<>>, total_processed |-> 0, failed_count |-> 0]]

\* embedding.py:276-289: the batch is encoded, its documents are built
EncodeSucceeded(p) ==
    LET batch == BatchAt(p.chunks, p.i, p.batch_size)
        embeddings == [k \in DOMAIN batch |-> Encode(batch[k].text, p.model_dimension)]
        docs == [k \in DOMAIN batch |->
                   VectorDocument(batch[k].chunk_id, batch[k].doc_id, batch[k].clause_hint,
                                  Embedding(embeddings[k]))]
    IN [p EXCEPT !.all_embeddings = @ \o embeddings, !.vectors = @ \o docs,
                 !.dimension = DimensionAfterLoad(p), !.i = @ + p.batch_size]

\* embedding.py:291-295: encode raised, with the model loaded or not; the
\* batch is counted as failed and zero vectors are appended to the local
\* all_embeddings, which nothing reads
EncodeFailed(p, loaded) ==
    LET batch == BatchAt(p.chunks, p.i, p.batch_size)
        dimension == IF loaded THEN DimensionAfterLoad(p) ELSE p.dimension
    IN [p EXCEPT !.failed_count = @ + Len(batch), !.failed = @ \cup {p.i},
                 !.all_embeddings = @ \o [k \in DOMAIN batch |-> ZeroVector(dimension)],
                 !.dimension = dimension, !.i = @ + p.batch_size]

\* self.vector_store.add_documents(vectors) (embedding.py:298-299)
PipelineAdd(p) ==
    IF p.vectors = <<>>
    THEN [documents |-> p.index, ntotal |-> p.ntotal, ret |-> Ret(0)]
    ELSE IF p.vector_store.type = "faiss"
    THEN FaissAddDocuments(p.index, p.ntotal, p.vector_store.lib, p.vectors)
    ELSE [documents |-> MemAddDocuments(p.index, p.vectors).documents, ntotal |-> p.ntotal,
          ret |-> MemAddDocuments(p.index, p.vectors).ret]

InitPipeline ==
    /\ ExecutorIdle /\ CallsIdle /\ StoreIdle /\ ChunkerIdle /\ ValidatorIdle /\ RestIdle
    /\ pipeline \in {NewPipelineCall(n, b, vs, pr, d) :
                        n \in 0..MaxChunks, b \in 1..MaxBatchSize, vs \in PipelineStores,
                        pr \in Providers, d \in ModelDimensions}

pipelineFrame == <<env, tasks, call, ncalls, calls, store, chunker, validator, restVars>>

\* provider.encode returns for the batch at i
EncodeReturns ==
    /\ pipeline.pc = "loop"
    /\ pipeline.i < Len(pipeline.chunks)
    /\ pipeline' = EncodeSucceeded(pipeline)
    /\ UNCHANGED pipelineFrame

\* provider.encode raises for the batch at i
EncodeRaises ==
    /\ pipeline.pc = "loop"
    /\ pipeline.i < Len(pipeline.chunks)
    /\ \E loaded \in BOOLEAN : pipeline' = EncodeFailed(pipeline, loaded)
    /\ UNCHANGED pipelineFrame

\* embedding.py:297-309: the documents go to the vector store, the result
\* is returned
ProcessChunksReturns ==
    /\ pipeline.pc = "loop"
    /\ pipeline.i >= Len(pipeline.chunks)
    /\ ~PipelineAdd(pipeline).ret.raises
    /\ pipeline' = [pipeline EXCEPT
                      !.pc = "returned",
                      !.index = PipelineAdd(pipeline).documents,
                      !.ntotal = PipelineAdd(pipeline).ntotal,
                      !.result = [vectors |-> pipeline.vectors,
                                  total_processed |-> Len(pipeline.chunks),
                                  failed_count |-> pipeline.failed_count]]
    /\ UNCHANGED pipelineFrame

\* embedding.py:298-299: add_documents raises, outside the try of the loop;
\* the exception leaves process_chunks, nothing is returned
ProcessChunksRaises ==
    /\ pipeline.pc = "loop"
    /\ pipeline.i >= Len(pipeline.chunks)
    /\ PipelineAdd(pipeline).ret.raises
    /\ pipeline' = [pipeline EXCEPT !.pc = "raised",
                                    !.index = PipelineAdd(pipeline).documents,
                                    !.ntotal = PipelineAdd(pipeline).ntotal]
    /\ UNCHANGED pipelineFrame

NextPipeline ==
    \/ EncodeReturns
    \/ EncodeRaises
    \/ ProcessChunksReturns
    \/ ProcessChunksRaises

SpecPipeline == InitPipeline /\ [][NextPipeline]_vars

\* the offset of the batch the chunk at position k (from 1) belongs to
BatchOf(k) == ((k - 1) \div pipeline.batch_size) * pipeline.batch_size

InFailedBatch(k) == BatchOf(k) \in pipeline.failed

\* the vector store holds a record of the chunk with this embedding
Indexed(chunk, v) ==
    \E d \in DOMAIN pipeline.index :
        /\ pipeline.index[d].chunk_id = chunk.chunk_id
        /\ pipeline.index[d].embedding = Embedding(v)

\* the result holds a document of the chunk with this embedding
InResult(chunk, v) ==
    \E d \in DOMAIN pipeline.result.vectors :
        /\ pipeline.result.vectors[d].chunk_id = chunk.chunk_id
        /\ pipeline.result.vectors[d].embedding = Embedding(v)

\* C15: process_chunks does not raise and tries every batch; when it has
\* returned, every chunk of a batch that did not fail is in the index with
\* its encoding, every chunk of a failed batch is there with a zero vector,
\* and failed_count is the number of chunks in the failed batches.  The
\* code drops the chunks of a failed batch (their zero vectors go to a
\* local that nothing reads) and lets an exception of add_documents out
C15_EncodeErrorsAreBatchScoped ==
    /\ pipeline.pc # "raised"
    /\ pipeline.pc = "loop" =>
          /\ pipeline.i <= Len(pipeline.chunks) + pipeline.batch_size - 1
          /\ \A b \in pipeline.failed : b < pipeline.i
    /\ pipeline.pc = "returned" =>
          /\ \A k \in DOMAIN pipeline.chunks :
                IF InFailedBatch(k)
                THEN Indexed(pipeline.chunks[k], ZeroVector(pipeline.dimension))
                ELSE Indexed(pipeline.chunks[k],
                             Encode(pipeline.chunks[k].text, pipeline.model_dimension))
          /\ pipeline.result.failed_count =
                Cardinality({k \in DOMAIN pipeline.chunks : InFailedBatch(k)})

\* the first part of C15 alone: process_chunks does not raise
C15_NeverRaises == pipeline.pc # "raised"

\* the zero vectors of C15 alone, in the index or in the result
C15_FailedChunksAreZeroVectors ==
    pipeline.pc = "returned" =>
        \A k \in DOMAIN pipeline.chunks :
            InFailedBatch(k) =>
                \/ Indexed(pipeline.chunks[k], ZeroVector(pipeline.dimension))
                \/ InResult(pipeline.chunks[k], ZeroVector(pipeline.dimension))

\* what process_chunks does keep: an encode error does not end the loop,
\* and a call that returned has every chunk of the batches that did not
\* fail in the index and in the result, no chunk of a failed batch in
\* either, and the chunks of the failed batches counted
C15_FailedBatchesAreDropped ==
    /\ pipeline.pc = "loop" =>
          /\ pipeline.i <= Len(pipeline.chunks) + pipeline.batch_size - 1
          /\ \A b \in pipeline.failed : b < pipeline.i
    /\ pipeline.pc = "returned" =>
          /\ Len(pipeline.all_embeddings) = Len(pipeline.chunks)
          /\ \A k \in DOMAIN pipeline.chunks :
                LET chunk == pipeline.chunks[k]
                IN IF InFailedBatch(k)
                   THEN /\ pipeline.all_embeddings[k] \in {ZeroVector(d) : d \in ModelDimensions}
                        /\ \A d \in DOMAIN pipeline.index :
                              pipeline.index[d].chunk_id # chunk.chunk_id
                        /\ \A d \in DOMAIN pipeline.result.vectors :
                              pipeline.result.vectors[d].chunk_id # chunk.chunk_id
                   ELSE /\ Indexed(chunk, Encode(chunk.text, pipeline.model_dimension))
                        /\ InResult(chunk, Encode(chunk.text, pipeline.model_dimension))
          /\ pipeline.result.failed_count =
                Cardinality({k \in DOMAIN pipeline.chunks : InFailedBatch(k)})

(***************************************************************************)
(* DocumentChunker (document/chunker.py)                                   *)
(* A text is a sequence of characters: "c" stands for a CJK character,     *)
(* "a" for a Latin letter, "." for a sentence terminator, " " and "\n"     *)
(* for white space.                                                        *)
(***************************************************************************)
\* pages of a document
MaxPages == 2

\* text blocks of a page
MaxBlocks == 2

WordChars == {"c", "a"}

WhiteSpace == {" ", "\n"}

\* str.strip()
RECURSIVE StripLeft(_)
StripLeft(text) ==
    IF text # <<>> /\ Head(text) \in WhiteSpace THEN StripLeft(Tail(text)) ELSE text

RECURSIVE StripRight(_)
StripRight(text) ==
    IF text # <<>> /\ text[Len(text)] \in WhiteSpace
    THEN StripRight(SubSeq(text, 1, Len(text) - 1)) ELSE text

Strip(text) == StripRight(StripLeft(text))

\* chunker.py:479-493: the CJK characters, plus the runs of Latin letters
\* that have no word character on either side (\b[a-zA-Z]+\b)
EstimateTokens(text) ==
    LET chinese_chars == Cardinality({i \in DOMAIN text : text[i] = "c"})
        StartsRun(i) == text[i] = "a" /\ (i = 1 \/ text[i - 1] # "a")
        EndOfRun(i) == CHOOSE j \in i..Len(text) :
                          /\ \A k \in i..j : text[k] = "a"
                          /\ (j = Len(text) \/ text[j + 1] # "a")
        IsWord(i) == /\ StartsRun(i)
                     /\ (i = 1 \/ text[i - 1] \notin WordChars)
                     /\ (EndOfRun(i) = Len(text) \/ text[EndOfRun(i) + 1] \notin WordChars)
        english_words == Cardinality({i \in DOMAIN text : IsWord(i)})
    IN chinese_chars + english_words

\* a faulty variant of Sentences: the piece after the last terminator is
\* left out
RECURSIVE SentencesDropTail(_, _)
SentencesDropTail(current, rest) ==
    IF rest = <<>> THEN <<>>
    ELSE IF Head(rest) = "."
         THEN <<Append(current, ".")>> \o SentencesDropTail(<<>>, Tail(rest))
         ELSE SentencesDropTail(Append(current, Head(rest)), Tail(rest))

\* chunker.py:335-340: re.split at the terminators, each piece joined with
\* the terminator that follows it; the piece after the last terminator
\* comes last and may be empty
RECURSIVE Sentences(_, _)
Sentences(current, rest) ==
    IF rest = <<>> THEN <<current>>
    ELSE IF Head(rest) = "."
         THEN <<Append(current, ".")>> \o Sentences(<<>>, Tail(rest))
         ELSE Sentences(Append(current, Head(rest)), Tail(rest))

\* chunker.py:342-360: the loop over the sentences; chunks so far, the
\* current chunk, the sentences left
RECURSIVE SplitLoop(_, _, _, _)
SplitLoop(chunks, current_chunk, sentences, max_tokens) ==
    IF sentences = <<>>
    THEN IF current_chunk # <<>> THEN Append(chunks, current_chunk) ELSE chunks
    ELSE LET sentence == Head(sentences)
             test_chunk == current_chunk \o sentence
         IN IF Strip(sentence) = <<>>
            THEN SplitLoop(chunks, current_chunk, Tail(sentences), max_tokens)
            ELSE IF EstimateTokens(test_chunk) <= max_tokens
            THEN SplitLoop(chunks, test_chunk, Tail(sentences), max_tokens)
            ELSE SplitLoop(IF current_chunk # <<>> THEN Append(chunks, current_chunk) ELSE chunks,
                           sentence, Tail(sentences), max_tokens)

\* chunker.py:319-360
SplitLongParagraph(paragraph, max_tokens) ==
    SplitLoop(<<>>, <<>>, Sentences(<<>>, paragraph), max_tokens)

\* sorted(page.text_blocks, key=(y1, x1)); the blocks of the model share
\* x1, and the sort is stable
RECURSIVE InsertBlock(_, _)
InsertBlock(sorted, block) ==
    IF sorted = <<>> THEN <<block>>
    ELSE IF block.y1 < Head(sorted).y1 THEN <<block>> \o sorted
    ELSE <<Head(sorted)>> \o InsertBlock(Tail(sorted), block)

RECURSIVE SortBlocks(_, _)
SortBlocks(sorted, blocks) ==
    IF blocks = <<>> THEN sorted
    ELSE SortBlocks(InsertBlock(sorted, Head(blocks)), Tail(blocks))

Abs(x) == IF x < 0 THEN -x ELSE x

\* chunker.py:160-201: the loop over the sorted blocks; prev_y is -1 for None
RECURSIVE ParagraphLoop(_, _, _, _)
ParagraphLoop(paragraphs, current_paragraph, prev_y, blocks) ==
    IF blocks = <<>>
    THEN IF current_paragraph # <<>> THEN Append(paragraphs, current_paragraph) ELSE paragraphs
    ELSE LET block == Head(blocks)
             text == Strip(block.text)
             is_new_paragraph == prev_y # -1 /\ Abs(block.y1 - prev_y) > 25
             flush == is_new_paragraph /\ current_paragraph # <<>>
             kept == IF flush THEN <<>> ELSE current_paragraph
         IN IF text = <<>>
            THEN ParagraphLoop(paragraphs, current_paragraph, prev_y, Tail(blocks))
            ELSE ParagraphLoop(IF flush THEN Append(paragraphs, current_paragraph) ELSE paragraphs,
                               (IF kept # <<>> THEN Append(kept, " ") ELSE kept) \o text,
                               block.y1, Tail(blocks))

\* chunker.py:131-203
ExtractParagraphs(page) ==
    IF page.text_blocks = <<>> THEN <<>>
    ELSE ParagraphLoop(<<>>, <<>>, -1, SortBlocks(<<>>, page.text_blocks))

\* f"{doc_id}_p{page_number}_c{chunk_index}" (chunker.py:387)
ChunkId(doc_id, page_number, chunk_index) ==
    doc_id \o "_p" \o ToString(page_number) \o "_c" \o ToString(chunk_index)

\* a faulty variant of CharEnd: the end is the start of the next chunk only
\* when the chunk is followed by a separator
CharEndWithSeparator(char_start, text) == char_start + Len(text) + 2

\* chunker.py:409
CharEnd(char_start, text) == char_start + Len(text)

\* chunker.py:362-413.  origin and last_sub are history: whether the chunk
\* comes from the packing of paragraphs or from the split of a long one,
\* and whether it is the last piece of that split.
CreateChunk(doc_id, page_number, chunk_index, text, char_start, origin, last_sub) ==
    [chunk_id |-> ChunkId(doc_id, page_number, chunk_index), doc_id |-> doc_id,
     page |-> page_number, text |-> text, char_start |-> char_start,
     char_end |-> CharEnd(char_start, text), token_count |-> EstimateTokens(text),
     origin |-> origin, last_sub |-> last_sub]

\* chunker.py:241-252, 285-295, 305-315: the current chunk, if it has text,
\* is appended and the offset moves by the length of its text
Flush(st, doc_id, page_number, chunk_index) ==
    IF st.current = <<>> THEN st
    ELSE [st EXCEPT !.chunks = Append(@, CreateChunk(doc_id, page_number,
                                                     Len(st.chunks) + chunk_index,
                                                     st.current, st.char_offset,
                                                     "packed", FALSE)),
                    !.char_offset = @ + Len(st.current),
                    !.current = <<>>]

\* chunker.py:259-269
RECURSIVE AppendSubChunks(_, _, _, _, _)
AppendSubChunks(st, sub_chunks, doc_id, page_number, chunk_index) ==
    IF sub_chunks = <<>> THEN st
    ELSE AppendSubChunks(
            [st EXCEPT !.chunks = Append(@, CreateChunk(doc_id, page_number,
                                                        Len(st.chunks) + chunk_index,
                                                        Head(sub_chunks), st.char_offset,
                                                        "split", Len(sub_chunks) = 1)),
                       !.char_offset = @ + Len(Head(sub_chunks))],
            Tail(sub_chunks), doc_id, page_number, chunk_index)

\* chunker.py:234-302: the loop over the paragraphs
RECURSIVE ChunkLoop(_, _, _, _, _, _)
ChunkLoop(st, paragraphs, cfg, doc_id, page_number, chunk_index) ==
    IF paragraphs = <<>> THEN st
    ELSE LET para_text == Head(paragraphs)
             para_tokens == EstimateTokens(para_text)
             new_tokens == EstimateTokens(st.current) + para_tokens
             flushed == Flush(st, doc_id, page_number, chunk_index)
             next ==
                IF para_tokens > cfg.max_chunk_size
                THEN AppendSubChunks(flushed,
                                     SplitLongParagraph(para_text, cfg.max_chunk_size),
                                     doc_id, page_number, chunk_index)
                ELSE IF new_tokens <= cfg.target_chunk_size
                THEN [st EXCEPT !.current =
                         (IF @ # <<>> THEN @ \o <<"\n", "\n">> ELSE @) \o para_text]
                ELSE [flushed EXCEPT !.current = para_text]
         IN ChunkLoop(next, Tail(paragraphs), cfg, doc_id, page_number, chunk_index)

\* chunker.py:205-317: the chunks of a page and the characters they cover
CreateChunksFromParagraphs(paragraphs, cfg, doc_id, page_number, chunk_index, global_char_offset) ==
    LET st == Flush(ChunkLoop([chunks |-> <<>>, current |-> <<>>,
                               char_offset |-> global_char_offset],
                              paragraphs, cfg, doc_id, page_number, chunk_index),
                    doc_id, page_number, chunk_index)
    IN [chunks |-> st.chunks, chars |-> st.char_offset - global_char_offset]

\* a faulty variant of PageLoop: the chunks are numbered from 0 on every page
RECURSIVE PageLoopLocalIndex(_, _, _, _, _)
PageLoopLocalIndex(chunks, global_char_offset, pages, cfg, doc_id) ==
    IF pages = <<>> THEN chunks
    ELSE LET page == Head(pages)
             made == CreateChunksFromParagraphs(ExtractParagraphs(page), cfg, doc_id,
                                                page.page_number, 0, global_char_offset)
         IN PageLoopLocalIndex(chunks \o made.chunks, global_char_offset + made.chars,
                               Tail(pages), cfg, doc_id)

\* chunker.py:108-129: the loop over the pages
RECURSIVE PageLoop(_, _, _, _, _)
PageLoop(chunks, global_char_offset, pages, cfg, doc_id) ==
    IF pages = <<>> THEN chunks
    ELSE LET page == Head(pages)
             made == CreateChunksFromParagraphs(ExtractParagraphs(page), cfg, doc_id,
                                                page.page_number, Len(chunks),
                                                global_char_offset)
         IN PageLoop(chunks \o made.chunks, global_char_offset + made.chars,
                     Tail(pages), cfg, doc_id)

\* DocumentChunker.chunk (chunker.py:93-129)
ChunkDocument(pages, cfg, doc_id) == PageLoop(<<>>, 0, pages, cfg, doc_id)

\* the texts of the blocks: one, two and three tokens, white space around
\* a Latin and a CJK word, a paragraph whose first sentence alone is longer
\* than max_chunk_size, one that splits into two sentences, a blank block
BlockTexts ==
    {<<"c">>, <<"c", "c", ".">>, <<"c", "c", "c">>, <<" ", "a", " ", "c", " ">>,
     <<"c", "c", "c", "c", "c", ".", "c", ".">>, <<"c", "c", ".", "c", "c", "c", ".">>,
     <<" ", " ">>}

\* bbox.y1 of a block: on one line, or a paragraph apart
BlockYs == {0, 30}

TextBlocks == [text : BlockTexts, y1 : BlockYs]

\* page_number of the first page of a document
FirstPages == {1, 3}

\* PDFPage: the pages of a document are numbered from `first` on
PagesOf(blocks, first) ==
    [k \in DOMAIN blocks |-> [page_number |-> first + k - 1, text_blocks |-> blocks[k]]]

BlockLists == UNION {[1..n -> TextBlocks] : n \in 0..MaxBlocks}

Documents ==
    {PagesOf(b, first) : b \in UNION {[1..n -> BlockLists] : n \in 0..MaxPages},
                         first \in FirstPages}

\* DocumentChunker(min_chunk_size, max_chunk_size, target_chunk_size)
ChunkerConfigs ==
    {[min_chunk_size |-> 2, target_chunk_size |-> 3, max_chunk_size |-> 4],
     [min_chunk_size |-> 1, target_chunk_size |-> 2, max_chunk_size |-> 2]}

InitChunker ==
    /\ ExecutorIdle /\ CallsIdle /\ StoreIdle /\ PipelineIdle /\ ValidatorIdle /\ RestIdle
    /\ chunker \in {[pc |-> "input", pages |-> d, cfg |-> c, doc_id |-> "dA", chunks |-> <<>>] :
                       d \in Documents, c \in ChunkerConfigs}

chunkerFrame == <<env, tasks, call, ncalls, calls, store, pipeline, validator, restVars>>

\* chunker.chunk(pages, doc_id) returns
ChunkCall ==
    /\ chunker.pc = "input"
    /\ chunker' = [chunker EXCEPT !.pc = "returned",
                                  !.chunks = ChunkDocument(chunker.pages, chunker.cfg,
                                                           chunker.doc_id)]
    /\ UNCHANGED chunkerFrame

NextChunker == ChunkCall

SpecChunker == InitChunker /\ [][NextChunker]_vars

\* the chunk at position i is the last chunk of its page
LastOfPage(i) ==
    i = Len(chunker.chunks) \/ chunker.chunks[i + 1].page # chunker.chunks[i].page

\* C16: with target_chunk_size <= max_chunk_size no chunk has more than
\* max_chunk_size tokens, except possibly the last piece of a split
C16_TokenUpperBound ==
    chunker.pc = "returned" /\ chunker.cfg.target_chunk_size <= chunker.cfg.max_chunk_size =>
        \A i \in DOMAIN chunker.chunks :
            \/ chunker.chunks[i].token_count <= chunker.cfg.max_chunk_size
            \/ chunker.chunks[i].origin = "split" /\ chunker.chunks[i].last_sub

\* C17: a chunk that does not come from a split has at least
\* min_chunk_size tokens unless it is the last chunk of its page
C17_TokenLowerBound ==
    chunker.pc = "returned" =>
        \A i \in DOMAIN chunker.chunks :
            \/ chunker.chunks[i].origin = "split"
            \/ LastOfPage(i)
            \/ chunker.chunks[i].token_count >= chunker.cfg.min_chunk_size

TextsOf(chunks) == [i \in DOMAIN chunks |-> chunks[i].text]

\* the chunks that carry the page_number n
OfPage(n) == LET On(c) == c.page = n IN SelectSeq(chunker.chunks, On)

\* C18: the chunk at position i (from 0) of the document has the chunk_id
\* "{doc_id}_p{page}_c{i}", its page is the page its text was cut from, and
\* no two chunks of the document share a chunk_id
C18_ChunkIdIsDeterministic ==
    chunker.pc = "returned" =>
        /\ \A i \in DOMAIN chunker.chunks :
              chunker.chunks[i].chunk_id =
                  chunker.doc_id \o "_p" \o ToString(chunker.chunks[i].page)
                                 \o "_c" \o ToString(i - 1)
        /\ \A k \in DOMAIN chunker.pages :
              TextsOf(OfPage(chunker.pages[k].page_number)) =
                  TextsOf(ChunkDocument(<<chunker.pages[k]>>, chunker.cfg, chunker.doc_id))
        /\ \A i, j \in DOMAIN chunker.chunks :
              i # j => chunker.chunks[i].chunk_id # chunker.chunks[j].chunk_id

\* chunks of two pages were returned, those of the second page being the
\* pieces of a split paragraph
C18_Witness ==
    /\ chunker.pc = "returned"
    /\ Len(chunker.chunks) >= 3
    /\ chunker.chunks[1].page # chunker.chunks[2].page
    /\ chunker.chunks[2].origin = "split" /\ ~chunker.chunks[2].last_sub
    /\ chunker.chunks[3].origin = "split"

\* C19: a chunk ends len(text) characters after its start, the first chunk
\* starts at 0 and every other chunk starts where the one before it ends
C19_OffsetsTile ==
    chunker.pc = "returned" =>
        \A i \in DOMAIN chunker.chunks :
            /\ chunker.chunks[i].char_end - chunker.chunks[i].char_start
                   = Len(chunker.chunks[i].text)
            /\ chunker.chunks[i].char_start =
                   IF i = 1 THEN 0 ELSE chunker.chunks[i - 1].char_end

\* a chunk packed from two paragraphs, separator included, is followed on
\* the next page by the pieces of a split paragraph
C19_Witness ==
    /\ chunker.pc = "returned"
    /\ Len(chunker.chunks) >= 3
    /\ chunker.chunks[1].origin = "packed"
    /\ \E k \in DOMAIN chunker.chunks[1].text : chunker.chunks[1].text[k] = "\n"
    /\ chunker.chunks[2].origin = "split" /\ chunker.chunks[2].page # chunker.chunks[1].page
    /\ chunker.chunks[3].char_start > chunker.chunks[2].char_start

\* a text without its white space
NoSpace(text) == LET Inked(ch) == ch \notin WhiteSpace IN SelectSeq(text, Inked)

\* the texts of a page's spans in (y1, x1) order, white space left out;
\* a blank span leaves the empty text
SpanTexts(page) ==
    LET sorted == SortBlocks(<<>>, page.text_blocks)
    IN [k \in DOMAIN sorted |-> NoSpace(sorted[k].text)]

\* the lengths of the first 1, 2, ... texts together
RunningLengths(texts) == [k \in DOMAIN texts |-> Len(Concat(SubSeq(texts, 1, k)))]

\* C30: for every page the span texts in (y1, x1) order, white space and
\* separators left out, are the concatenation of the texts of the page's
\* chunks in output order; a chunk boundary falls between two spans, or
\* inside a span right after a sentence terminator when the chunk before it
\* is a piece of a split paragraph; an empty page has no chunks
C30_TextIsPreserved ==
    chunker.pc = "returned" =>
        \A k \in DOMAIN chunker.pages :
            LET page == chunker.pages[k]
                chunks == OfPage(page.page_number)
                texts == [i \in DOMAIN chunks |-> NoSpace(chunks[i].text)]
                source == Concat(SpanTexts(page))
                span_ends == {RunningLengths(SpanTexts(page))[j] : j \in DOMAIN SpanTexts(page)}
                cuts == RunningLengths(texts)
            IN /\ Concat(texts) = source
               /\ \A i \in DOMAIN chunks :
                     /\ texts[i] # <<>>
                     /\ \/ cuts[i] \in span_ends
                        \/ chunks[i].origin = "split" /\ source[cuts[i]] = "."
               /\ page.text_blocks = <<>> => chunks = <<>>

\* a page whose two spans stand in the reverse of their (y1, x1) order, one
\* with white space around its words, the other split into two chunks
C30_Witness ==
    /\ chunker.pc = "returned"
    /\ \E k \in DOMAIN chunker.pages :
          LET page == chunker.pages[k]
              chunks == OfPage(page.page_number)
          IN /\ Len(page.text_blocks) = 2
             /\ page.text_blocks[1].y1 > page.text_blocks[2].y1
             /\ page.text_blocks[2].text = <<" ", "a", " ", "c", " ">>
             /\ Len(chunks) = 3
             /\ chunks[2].origin = "split" /\ ~chunks[2].last_sub
             /\ chunks[3].origin = "split" /\ chunks[3].last_sub

(***************************************************************************)
(* The Output Validator on raw texts (review_prompt.py:202-277).  A raw    *)
(* text is what surrounds the JSON body: lead and trail are sequences of   *)
(* marks, "ws" for white space, "fence_json" and "fence" for the fence     *)
(* marks with and without the word json, and "prose" for any other         *)
(* characters; is_str is false for an output that is no string.            *)
(***************************************************************************)
RawText(lead, body, trail) == [is_str |-> TRUE, lead |-> lead, body |-> body, trail |-> trail]
NotAString == [is_str |-> FALSE, lead |-> <<>>, body |-> OutNotJson, trail |-> <<>>]

\* str.strip() of the part before the body
RECURSIVE LStrip(_)
LStrip(marks) ==
    IF marks # <<>> /\ Head(marks) = "ws" THEN LStrip(Tail(marks)) ELSE marks

\* str.strip() of the part after the body
RECURSIVE RStrip(_)
RStrip(marks) ==
    IF marks # <<>> /\ marks[Len(marks)] = "ws" THEN RStrip(SubSeq(marks, 1, Len(marks) - 1))
    ELSE marks

\* review_prompt.py:222-223: a leading fence mark with json is dropped
DropJsonFence(lead) ==
    IF lead # <<>> /\ Head(lead) = "fence_json" THEN Tail(lead) ELSE lead

\* review_prompt.py:224-225: a leading fence mark is dropped, which leaves
\* the letters json of a fence mark with json
DropFence(lead) ==
    IF lead # <<>> /\ Head(lead) = "fence" THEN Tail(lead)
    ELSE IF lead # <<>> /\ Head(lead) = "fence_json" THEN <<"prose">> \o Tail(lead)
    ELSE lead

\* review_prompt.py:226-227: a trailing fence mark is dropped
DropEndFence(trail) ==
    IF trail # <<>> /\ trail[Len(trail)] = "fence" THEN SubSeq(trail, 1, Len(trail) - 1)
    ELSE trail

\* review_prompt.py:221-228
StripCodeFence(text) ==
    [text EXCEPT !.lead = LStrip(DropFence(DropJsonFence(LStrip(text.lead)))),
                 !.trail = RStrip(DropEndFence(RStrip(text.trail)))]

\* review_prompt.py:230: json.loads raises JSONDecodeError unless the text is
\* one JSON value
JsonLoads(text) ==
    IF text.lead # <<>> \/ text.trail # <<>> THEN OutNotJson ELSE text.body

\* ReviewPromptValidator.validate_prompt_output on a raw output; strip()
\* of an output that is no string raises AttributeError, which the handler
\* of Exception turns into a validation error
ValidateRawOutput(output) ==
    IF ~output.is_str THEN Invalid(ErrValidation)
    ELSE ValidatePromptOutput(JsonLoads(StripCodeFence(output)))

\* values of the evidence key
NonObjectItem == [object |-> FALSE, complete |-> FALSE, chunk_id |-> Absent]
IncompleteItem == [object |-> TRUE, complete |-> FALSE, chunk_id |-> "d_p1_c0"]
EvidenceValues ==
    {NoEvidence, EmptyEvidence, [kind |-> "nonlist", items |-> <<>>],
     Evidence(<<"d_p1_c0">>), Evidence(<<"d_p1_c0", "d_p2_c0">>),
     [kind |-> "list", items |-> <<NonObjectItem>>],
     [kind |-> "list", items |-> <<IncompleteItem>>],
     [kind |-> "list", items |-> Evidence(<<"d_p1_c0">>).items \o <<NonObjectItem>>],
     [kind |-> "list", items |-> <<IncompleteItem, NonObjectItem>>]}

ConfidenceValues == {Absent, "in", "out", "bool", "nonnumber"}

\* JSON objects
ObjectBodies ==
    {[json |-> "object", rule_id |-> r, rule_name |-> Absent, status |-> s, reason |-> q,
      evidence |-> e, confidence |-> c] :
        r \in {Absent, "r_llm"}, s \in {Absent, "PASS", "RISK", "MISSING", "FAILED"},
        q \in {Absent, "text"}, e \in EvidenceValues, c \in ConfidenceValues}

\* JSON arrays and strings: a field tells whether its name is a member
ListBodies ==
    {[json |-> "list", rule_id |-> r, rule_name |-> Absent, status |-> s, reason |-> q,
      evidence |-> NoEvidence, confidence |-> Absent] :
        r \in {Absent, "member"}, s \in {Absent, "member"}, q \in {Absent, "member"}}

\* a JSON number, true, false or null
OutNumber == [OutNotJson EXCEPT !.json = "number"]

Bodies == ValidatorInputs \cup ObjectBodies \cup ListBodies \cup {OutNumber}

Leads == {<<>>, <<"ws">>, <<"fence_json", "ws">>, <<"ws", "fence", "ws">>, <<"prose">>,
          <<"fence_json", "fence_json", "ws">>, <<"fence", "fence_json", "ws">>}
Trails == {<<>>, <<"ws">>, <<"ws", "fence">>, <<"ws", "fence", "ws">>, <<"prose">>, <<"fence", "fence">>}

RawTexts == {RawText(l, b, t) : l \in Leads, b \in Bodies, t \in Trails} \cup {NotAString}

\* validate_prompt_output is called with a raw output
ValidatorCalled(output) == [pc |-> "called", output |-> output, result |-> Invalid(None)]

InitValidator ==
    /\ ExecutorIdle /\ CallsIdle /\ StoreIdle /\ PipelineIdle /\ ChunkerIdle /\ RestIdle
    /\ validator \in {ValidatorCalled(output) : output \in RawTexts}

validatorFrame == <<env, tasks, call, ncalls, calls, store, pipeline, chunker, restVars>>

\* the call of validate_prompt_output returns
ValidateReturns ==
    /\ validator.pc = "called"
    /\ validator' = [validator EXCEPT !.pc = "returned",
                                      !.result = ValidateRawOutput(validator.output)]
    /\ UNCHANGED validatorFrame

NextValidator == ValidateReturns

SpecValidator == InitValidator /\ [][NextValidator]_vars

\* the marks are white space and at most one fence mark of the given ones
IsWrapper(marks, fences) ==
    LET f == SelectSeq(marks, LAMBDA m : m # "ws")
    IN f = <<>> \/ (Len(f) = 1 /\ f[1] \in fences)

\* the text is a JSON object in at most one pair of code fences
ParsesAsObject(text) ==
    /\ text.is_str
    /\ IsWrapper(text.lead, {"fence_json", "fence"})
    /\ IsWrapper(text.trail, {"fence"})
    /\ text.body.json = "object"

\* the object has the fields of a review result
WellFormed(body) ==
    /\ body.rule_id # Absent /\ body.status # Absent /\ body.reason # Absent
    /\ body.status \in {"PASS", "RISK", "MISSING"}
    /\ \/ body.evidence.kind = Absent
       \/ /\ body.evidence.kind = "list"
          /\ \A k \in 1..Len(body.evidence.items) :
                body.evidence.items[k].object /\ body.evidence.items[k].complete
    /\ body.confidence \in {Absent, "in"}

\* C20: the validator returns valid:true with the parsed data exactly when
\* the raw text, code fences stripped, is a JSON object with rule_id, status
\* and reason, a status of PASS, RISK or MISSING, an evidence (if present)
\* that is a list of objects with chunk_id, page and text, and a confidence
\* (if present) that is a number of [0,1]; every other text returns
\* valid:false with an error and no data
C20_ValidatorFailsClosed ==
    validator.pc = "returned" =>
        LET text == validator.output
            result == validator.result
        IN IF ParsesAsObject(text) /\ WellFormed(text.body)
           THEN result.valid /\ result.data = text.body
           ELSE ~result.valid /\ result.error # None /\ result.data = NoData

(***************************************************************************)
(* Query Builder on rule texts (query_builder.py:51-479).  A text is the   *)
(* sequence of its tokens: the words (the maximal runs of word characters  *)
(* that re.findall returns), punctuation ".", the braces "{" and "}", and  *)
(* the placeholders of the templates, each one token.  The white space     *)
(* between two tokens is left out; " " is a string of white space alone,   *)
(* the empty sequence is the empty string.  A rule has rule_id, type,      *)
(* intent and params, a sequence of entries in the order of the mapping:   *)
(* name (a word), kind ("str", "num" for int and float, "other"), value,   *)
(* the tokens of the string or of str(number), and truthy, whether         *)
(* bool(value) holds: the empty string and the number 0 are not, a string  *)
(* of white space is.  A query keeps query_id, keywords, rules, query_type *)
(* and weight, in tenths.                                                  *)
(***************************************************************************)
\* RuleAwareQueryBuilder.__init__ default
min_keyword_length == 2

\* the argument of Counter.most_common in _build_combined_queries
most_common_keywords == 10

\* the members of STOP_WORDS that occur in the texts below
StopWords == {"the", "must"}

SearchQuery(query_id, keywords, rules, query_type, weight) ==
    [query_id |-> query_id, keywords |-> keywords, rules |-> rules,
     query_type |-> query_type, weight |-> weight]

\* the order-preserving removal of repeated elements
RECURSIVE Unique(_, _)
Unique(words, seen) ==
    IF words = <<>> THEN <<>>
    ELSE IF Head(words) \in seen THEN Unique(Tail(words), seen)
    ELSE <<Head(words)>> \o Unique(Tail(words), seen \cup {Head(words)})

\* the tokens that hold no word character
NonWords == {" ", ".", "{", "}"}

\* the placeholders of RULE_TYPE_TEMPLATES, written in transliteration:
\* "{canshumingcheng}" (parameter name) and "{shuzhi}" (number) in
\* numeric_constraint, "{guanjianci}" (keyword) in text_contains,
\* "{xingwei}" (action) in prohibition, "{yiwu}" (obligation) in requirement
Placeholders == {"{canshumingcheng}", "{shuzhi}", "{guanjianci}", "{xingwei}", "{yiwu}"}

\* the word between the braces of a placeholder
Inner(token) ==
    IF token = "{canshumingcheng}" THEN "canshumingcheng"
    ELSE IF token = "{shuzhi}" THEN "shuzhi"
    ELSE IF token = "{guanjianci}" THEN "guanjianci"
    ELSE IF token = "{xingwei}" THEN "xingwei"
    ELSE "yiwu"

\* re.findall(r'[\w\u4e00-\u9fff]+', text) (query_builder.py:440)
Words(text) ==
    Concat([k \in 1..Len(text) |->
               IF text[k] \in NonWords THEN <<>>
               ELSE IF text[k] \in Placeholders THEN <<Inner(text[k])>>
               ELSE <<text[k]>>])

\* _extract_keywords: the words of min_keyword_length or more characters
\* that are no stop words, each once, in order
ExtractKeywords(text) ==
    Unique(SelectSeq(Words(text),
                     LAMBDA w : Len(w) >= min_keyword_length /\ w \notin StopWords), {})

Param(name, kind, value, truthy) == [name |-> name, kind |-> kind, value |-> value, truthy |-> truthy]

QRule(rule_id, type, intent, params) ==
    [rule_id |-> rule_id, type |-> type, intent |-> intent, params |-> params]

\* _build_queries_from_intent: nothing for the empty string; a string
\* without keywords gets the semantic query alone
IntentQueries(rule) ==
    IF rule.intent = <<>> THEN <<>>
    ELSE LET keywords == ExtractKeywords(rule.intent)
         IN <<SearchQuery(rule.rule_id \o "_intent", keywords, <<rule.rule_id>>, "semantic", 10)>>
            \o (IF keywords = <<>> THEN <<>>
                ELSE <<SearchQuery(rule.rule_id \o "_keywords", keywords, <<rule.rule_id>>,
                                   "keyword", 8)>>)

\* _build_queries_from_params: an entry whose value is falsy is skipped,
\* and so is one that is neither a string nor a number
RECURSIVE ParamQueriesOf(_, _)
ParamQueriesOf(rule_id, params) ==
    IF params = <<>> THEN <<>>
    ELSE LET p == Head(params)
         IN (IF ~p.truthy \/ p.kind = "other" THEN <<>>
             ELSE <<SearchQuery(rule_id \o "_param_" \o p.name,
                                ExtractKeywords(p.value) \o <<p.name>>, <<rule_id>>,
                                "keyword", 9)>>)
            \o ParamQueriesOf(rule_id, Tail(params))

ParamQueries(rule) == ParamQueriesOf(rule.rule_id, rule.params)

\* RULE_TYPE_TEMPLATES: the tokens of a template, the words in
\* transliteration
Templates(type) ==
    IF type = "numeric_constraint"
    THEN << <<"{canshumingcheng}", "{shuzhi}">>,
            <<"{canshumingcheng}", "buchaoguo", "{shuzhi}">>,
            <<"{canshumingcheng}", "shaoyu", "{shuzhi}">>,
            <<"{canshumingcheng}", "chaoguo", "{shuzhi}">> >>
    ELSE IF type = "text_contains"
    THEN << <<"{guanjianci}">>, <<"baohan", "{guanjianci}">>,
            <<"yueding", "{guanjianci}">>, <<"guiding", "{guanjianci}">> >>
    ELSE IF type = "prohibition"
    THEN << <<"jinzhi", "{xingwei}">>, <<"bude", "{xingwei}">>,
            <<"buyunxu", "{xingwei}">>, <<"buneng", "{xingwei}">> >>
    ELSE IF type = "requirement"
    THEN << <<"{yiwu}">>, <<"yingdang", "{yiwu}">>, <<"must", "{yiwu}">>,
            <<"youyiwu", "{yiwu}">> >>
    ELSE <<>>

\* next(... for v in params.values() if isinstance(v, kind), default)
RECURSIVE FirstOfKind(_, _, _)
FirstOfKind(params, kind, default) ==
    IF params = <<>> THEN default
    ELSE IF Head(params).kind = kind THEN Head(params).value
    ELSE FirstOfKind(Tail(params), kind, default)

Has(text, token) == \E k \in 1..Len(text) : text[k] = token

\* str.replace of a placeholder
Replace(text, token, value) ==
    Concat([k \in 1..Len(text) |-> IF text[k] = token THEN value ELSE <<text[k]>>])

\* query_builder.py:309-314: for every string param in order, its name in
\* braces, when the template holds it, is replaced in the text by its value
RECURSIVE FillNamed(_, _, _)
FillNamed(text, template, params) ==
    IF params = <<>> THEN text
    ELSE LET p == Head(params)
             placeholder == "{" \o p.name \o "}"
         IN FillNamed(IF p.kind = "str" /\ Has(template, placeholder)
                      THEN Replace(text, placeholder, p.value)
                      ELSE text,
                      template, Tail(params))

\* query_builder.py:316-347: one after the other, the placeholders that
\* the text holds by then are replaced: the parameter name by the first
\* name unless params is empty, the number by the first number, the
\* others by the first string, or by the default
FillGeneric(text, params) ==
    LET named == IF Has(text, "{canshumingcheng}") /\ params # <<>>
                 THEN Replace(text, "{canshumingcheng}", <<params[1].name>>)
                 ELSE text
        number == Replace(named, "{shuzhi}", FirstOfKind(params, "num", <<"zhidingzhi">>))
        keyword == Replace(number, "{guanjianci}",
                           FirstOfKind(params, "str", <<"yuedingneirong">>))
        action == Replace(keyword, "{xingwei}",
                          FirstOfKind(params, "str", <<"xiangguanxingwei">>))
    IN Replace(action, "{yiwu}", FirstOfKind(params, "str", <<"xiangguanyiwu">>))

FillTemplate(template, params) == FillGeneric(FillNamed(template, template, params), params)

\* "{" in query_text
HasBrace(text) == \E k \in 1..Len(text) : text[k] = "{" \/ text[k] \in Placeholders

\* _build_queries_from_templates: a template whose filled text holds an
\* opening brace is skipped; query_id counts the queries made so far.  The
\* names of the params are strings, so that no replacement raises
RECURSIVE TemplateLoop(_, _, _)
TemplateLoop(queries, templates, rule) ==
    IF templates = <<>> THEN queries
    ELSE LET text == FillTemplate(Head(templates), rule.params)
         IN IF HasBrace(text)
            THEN TemplateLoop(queries, Tail(templates), rule)
            ELSE TemplateLoop(
                     Append(queries,
                            SearchQuery(rule.rule_id \o "_template_" \o ToString(Len(queries)),
                                        ExtractKeywords(text), <<rule.rule_id>>, "hybrid", 7)),
                     Tail(templates), rule)

TemplateQueries(rule) == TemplateLoop(<<>>, Templates(rule.type), rule)

\* a faulty variant of BuildQueriesForRule: the last queries are kept
BuildQueriesForRuleKeepLast(rule) ==
    LET queries == IntentQueries(rule) \o ParamQueries(rule) \o TemplateQueries(rule)
    IN IF Len(queries) > max_queries_per_rule
       THEN SubSeq(queries, Len(queries) - max_queries_per_rule + 1, Len(queries))
       ELSE queries

\* _build_queries_for_rule
BuildQueriesForRule(rule) ==
    LET queries == IntentQueries(rule) \o ParamQueries(rule) \o TemplateQueries(rule)
    IN IF Len(queries) > max_queries_per_rule
       THEN SubSeq(queries, 1, max_queries_per_rule)
       ELSE queries

\* query_builder.py:388-401: the keywords of the intent and of the string
\* params of every rule, in order
RECURSIVE StringParamKeywords(_)
StringParamKeywords(params) ==
    IF params = <<>> THEN <<>>
    ELSE (IF Head(params).kind = "str" THEN ExtractKeywords(Head(params).value) ELSE <<>>)
         \o StringParamKeywords(Tail(params))

RECURSIVE AllKeywords(_)
AllKeywords(rules) ==
    IF rules = <<>> THEN <<>>
    ELSE ExtractKeywords(Head(rules).intent) \o StringParamKeywords(Head(rules).params)
         \o AllKeywords(Tail(rules))

\* Counter(all_keywords)[kw]
Count(all_keywords, kw) == Cardinality({k \in 1..Len(all_keywords) : all_keywords[k] = kw})

\* sorted(..., reverse=True) is stable: a keyword goes behind the ones
\* that count as much
RECURSIVE InsertByCount(_, _, _)
InsertByCount(sorted, kw, all_keywords) ==
    IF sorted = <<>> THEN <<kw>>
    ELSE IF Count(all_keywords, kw) > Count(all_keywords, Head(sorted))
         THEN <<kw>> \o sorted
         ELSE <<Head(sorted)>> \o InsertByCount(Tail(sorted), kw, all_keywords)

RECURSIVE SortByCount(_, _, _)
SortByCount(sorted, keys, all_keywords) ==
    IF keys = <<>> THEN sorted
    ELSE SortByCount(InsertByCount(sorted, Head(keys), all_keywords), Tail(keys), all_keywords)

\* Counter.most_common(n): the keys in the order of first occurrence,
\* sorted by falling count, the first n of them
MostCommon(all_keywords, n) ==
    Take(SortByCount(<<>>, Unique(all_keywords, {}), all_keywords), n)

\* a faulty variant of RuleIds: only the first rule is referenced
RuleIdsFirstOnly(rules) == <<rules[1].rule_id>>

\* query_builder.py:386-389
RuleIds(rules) == [k \in 1..Len(rules) |-> rules[k].rule_id]

\* _build_combined_queries
BuildCombinedQueries(rules) ==
    IF Len(rules) < 2 THEN <<>>
    ELSE LET top_keywords == MostCommon(AllKeywords(rules), most_common_keywords)
         IN IF top_keywords = <<>> THEN <<>>
            ELSE <<SearchQuery("combined_" \o ToString(Len(rules)) \o "rules", top_keywords,
                               RuleIds(rules), "hybrid", 6)>>

\* build_queries: per_rule keeps the queries of each rule apart
BuildQueries(rules, combine_rules) ==
    LET per_rule == [k \in 1..Len(rules) |-> BuildQueriesForRule(rules[k])]
    IN [per_rule |-> per_rule,
        combined |-> IF combine_rules /\ Len(rules) > 1 THEN BuildCombinedQueries(rules)
                     ELSE <<>>,
        queries |-> Concat(per_rule)
                    \o (IF combine_rules /\ Len(rules) > 1 THEN BuildCombinedQueries(rules)
                        ELSE <<>>),
        rules_count |-> Len(rules)]

\* eleven keywords, one more than most_common keeps
ElevenWords == <<"w01", "w02", "w03", "w04", "w05", "w06", "w07", "w08", "w09", "w10", "w11">>

\* intents: empty, punctuation only, without keywords, with the keyword
\* "bm", long
Intents == {<<>>, <<".">>, <<"the", "x">>, <<"bm", "tk">>, <<"yw", "bm", ".", "yw">>,
            ElevenWords, ElevenWords \o <<"bm">>}

\* params: none; a string; a number; a number and a string; an empty
\* string and a list; the number 0 and a blank string; a string under the
\* name of the requirement placeholder behind another string; a string
\* with braces; a string that is another placeholder, under the name of
\* the requirement placeholder
ParamLists ==
    {<<>>,
     <<Param("obligation", "str", <<"bm", "yw">>, TRUE)>>,
     <<Param("limit", "num", <<"30">>, TRUE)>>,
     <<Param("limit", "num", <<"30">>, TRUE), Param("obligation", "str", <<"bm">>, TRUE)>>,
     <<Param("note", "str", <<>>, FALSE), Param("parties", "other", <<"bm">>, TRUE)>>,
     <<Param("limit", "num", <<"0">>, FALSE), Param("note", "str", <<" ">>, TRUE)>>,
     <<Param("note", "str", <<"tk">>, TRUE), Param("yiwu", "str", <<"bm">>, TRUE)>>,
     <<Param("note", "str", <<"see", "{", "xy", "}">>, TRUE)>>,
     <<Param("note", "str", <<"tk">>, TRUE), Param("yiwu", "str", <<"{guanjianci}">>, TRUE)>>}

RuleTypes == {"", "requirement", "numeric_constraint", "text_contains", "prohibition"}

QRules == {QRule(id, type, intent, params) :
               id \in {"a", "b"}, type \in RuleTypes, intent \in Intents, params \in ParamLists}

\* three rules for the batches of three
FewRules == {QRule("a", "requirement", <<"bm", "tk">>, <<>>),
             QRule("b", "", <<"yw", "bm", ".", "yw">>, <<>>),
             QRule("c", "numeric_constraint", <<>>, <<Param("limit", "num", <<"30">>, TRUE)>>)}

\* the second rule of a batch of two is a requirement with at most one
\* parameter
SecondRules == {r \in QRules : r.type = "requirement" /\ Len(r.params) <= 1}

RuleBatches ==
    {<<>>} \cup {<<r>> : r \in QRules} \cup {<<r1, r2>> : r1 \in QRules, r2 \in SecondRules}
    \cup {<<r1, r2, r3>> : r1 \in FewRules, r2 \in FewRules, r3 \in FewRules}

\* build_queries is called
BuilderCalled(rules, combine_rules) ==
    [pc |-> "called", rules |-> rules, combine_rules |-> combine_rules,
     result |-> BuildQueries(<<>>, FALSE)]

InitBuilder ==
    /\ ExecutorIdle /\ CallsIdle /\ StoreIdle /\ PipelineIdle /\ ChunkerIdle /\ ValidatorIdle
    /\ RetrievalIdle /\ ServiceIdle
    /\ builder \in {BuilderCalled(rules, combine_rules) :
                        rules \in RuleBatches, combine_rules \in BOOLEAN}

builderFrame == <<env, tasks, call, ncalls, calls, store, pipeline, chunker, validator,
                  retrieval, service>>

\* the call of build_queries returns
BuildQueriesReturns ==
    /\ builder.pc = "called"
    /\ builder' = [builder EXCEPT !.pc = "returned",
                                  !.result = BuildQueries(builder.rules, builder.combine_rules)]
    /\ UNCHANGED builderFrame

NextBuilder == BuildQueriesReturns

SpecBuilder == InitBuilder /\ [][NextBuilder]_vars

\* the texts of a rule that the merge reads: the intent and the string params
MergedTexts(rule) ==
    <<rule.intent>> \o [k \in 1..Len(SelectSeq(rule.params, LAMBDA p : p.kind = "str")) |->
                           SelectSeq(rule.params, LAMBDA p : p.kind = "str")[k].value]

IsKeyword(w) == Len(w) >= min_keyword_length /\ w \notin StopWords

OccursIn(w, text) == \E k \in 1..Len(text) : text[k] = w

\* the keywords of a rule
KeywordsOfRule(rule) ==
    {w \in UNION {{Words(t)[k] : k \in 1..Len(Words(t))} : t \in {MergedTexts(rule)[i] : i \in 1..Len(MergedTexts(rule))}} :
        IsKeyword(w)}

\* the keywords that two rules of the batch have in common
SharedKeywords(rules) ==
    {w \in UNION {KeywordsOfRule(rules[i]) : i \in 1..Len(rules)} :
        \E i, j \in 1..Len(rules) :
            i # j /\ w \in KeywordsOfRule(rules[i]) /\ w \in KeywordsOfRule(rules[j])}

\* the texts of the batch in reading order, and the number of them a word is in
BatchTexts(rules) ==
    LET texts == Concat([i \in 1..Len(rules) |-> MergedTexts(rules[i])])
    IN [k \in 1..Len(texts) |-> Words(texts[k])]

Frequency(w, rules) ==
    LET texts == BatchTexts(rules)
    IN Cardinality({k \in 1..Len(texts) : OccursIn(w, texts[k])})

\* position of the first occurrence of a word in the batch
FirstSeen(w, rules) ==
    LET words == Concat(BatchTexts(rules))
    IN CHOOSE k \in 1..Len(words) : words[k] = w /\ \A j \in 1..(k - 1) : words[j] # w

\* the keywords that come before w by frequency, then by first occurrence
Before(w, rules) ==
    {v \in UNION {KeywordsOfRule(rules[i]) : i \in 1..Len(rules)} :
        \/ Frequency(v, rules) > Frequency(w, rules)
        \/ Frequency(v, rules) = Frequency(w, rules) /\ FirstSeen(v, rules) < FirstSeen(w, rules)}

\* the combined queries of a build result
CombinedOf(result) ==
    SelectSeq(result.queries, LAMBDA q : q.query_type = "hybrid" /\ q.weight = 6)

\* C21 as stated: with merging and two or more rules, every keyword shared
\* by two rules is among the keywords of the one combined query, which is
\* hybrid with weight 0.6 and lists the ids of all rules; with fewer than
\* two rules or without merging there is no combined query
C21_SharedKeywordIsMerged ==
    builder.pc = "returned" =>
        LET rules == builder.rules
            combined == CombinedOf(builder.result)
        IN /\ (builder.combine_rules /\ Len(rules) >= 2 /\ SharedKeywords(rules) # {}) =>
                  /\ Len(combined) = 1
                  /\ combined[1].rules = [k \in 1..Len(rules) |-> rules[k].rule_id]
                  /\ \A w \in SharedKeywords(rules) : OccursIn(w, combined[1].keywords)
           /\ (~builder.combine_rules \/ Len(rules) < 2) => combined = <<>>

\* C21, amended: the combined query holds the ten most frequent keywords,
\* so a shared keyword is among them when fewer than ten keywords come
\* before it by frequency and first occurrence
C21_FrequentSharedKeywordIsMerged ==
    builder.pc = "returned" =>
        LET rules == builder.rules
            combined == CombinedOf(builder.result)
        IN /\ (builder.combine_rules /\ Len(rules) >= 2 /\ SharedKeywords(rules) # {}) =>
                  /\ Len(combined) = 1
                  /\ combined[1].rules = [k \in 1..Len(rules) |-> rules[k].rule_id]
                  /\ Len(combined[1].keywords) <= most_common_keywords
                  /\ \A w \in SharedKeywords(rules) :
                        OccursIn(w, combined[1].keywords)
                            <=> Cardinality(Before(w, rules)) < most_common_keywords
           /\ (~builder.combine_rules \/ Len(rules) < 2) => combined = <<>>

\* three rules, two of which share "bm", were merged into one query that
\* names all three
C21_Witness ==
    /\ builder.pc = "returned"
    /\ builder.combine_rules
    /\ Len(builder.rules) = 3
    /\ "bm" \in SharedKeywords(builder.rules)
    /\ Cardinality({builder.rules[k].rule_id : k \in 1..3}) = 3
    /\ Len(CombinedOf(builder.result)) = 1
    /\ OccursIn("bm", CombinedOf(builder.result)[1].keywords)

\* the queries of the three strategies, in priority order
Generated(rule) == IntentQueries(rule) \o ParamQueries(rule) \o TemplateQueries(rule)

\* C26: the queries of every rule are the first max_queries_per_rule of the
\* intent-derived, parameter-derived and template-derived queries in that
\* order: never more, and none is left out while a later one is kept
C26_QueriesAreCappedByPriority ==
    builder.pc = "returned" =>
        \A k \in 1..Len(builder.rules) :
            LET built == builder.result.per_rule[k]
                all == Generated(builder.rules[k])
            IN /\ Len(built) <= max_queries_per_rule
               /\ Len(built) <= Len(all)
               /\ \A i \in 1..Len(built) : built[i] = all[i]
               /\ Len(built) < Len(all) => Len(built) = max_queries_per_rule

\* a rule with queries of all three strategies lost its template queries
\* to the cap
C26_Witness ==
    /\ builder.pc = "returned"
    /\ \E k \in 1..Len(builder.rules) :
          LET rule == builder.rules[k]
          IN /\ Len(IntentQueries(rule)) = 2
             /\ Len(ParamQueries(rule)) = 2
             /\ Len(TemplateQueries(rule)) = 4
             /\ Len(builder.result.per_rule[k]) = max_queries_per_rule
             /\ builder.result.per_rule[k][3].weight = 9

\* C29: the result appended for a rule carries that rule's rule_id and name,
\* whatever text the model or the mock responder returned: after every
\* append the last result of the task identifies the rule the loop is at
C29_ResultIdentifiesRule ==
    (call.pc # "idle" /\ call.log # <<>>) =>
        LET results == tasks[call.rid].results
            result == results[Len(results)]
        IN /\ result.rule_id = call.rule.rule_id
           /\ result.rule_name = call.rule.name

(***************************************************************************)
(* ReviewExecutor._retrieve_chunks (executor.py:294-343) on contexts whose *)
(* index holds chunks of two documents                                     *)
(***************************************************************************)
\* chunks per ranked list and per context.chunks
MaxResults == 3

RetrievedChunk(chunk_id, doc_id, clause_hint) ==
    [chunk_id |-> chunk_id, doc_id |-> doc_id, clause_hint |-> clause_hint]

\* two chunks of document dA, one of document dB, and a record without
\* chunk_id, for which result.get("chunk_id", "") gives ""
IndexedChunks == {RetrievedChunk("dA_p1_c0", "dA", "payment"),
                  RetrievedChunk("dA_p1_c1", "dA", "other"),
                  RetrievedChunk("dB_p1_c0", "dB", "payment"),
                  RetrievedChunk("", "dA", "payment")}

\* chunk lists of up to MaxResults chunks
ChunkLists == UNION {[1..n -> IndexedChunks] : n \in 0..MaxResults}

\* what a search returns: no record twice
RankedLists == {l \in ChunkLists : \A i, j \in DOMAIN l : i # j => l[i] # l[j]}

TagLists == {<<>>, <<"payment">>, <<"pay">>, <<"liability", "other">>}

MaxRetrieved == {1, 2, max_retrieved_chunks}

\* the queries of a rule: the intent query alone, or with the keyword query
QueryLists == {<<"intent">>, <<"intent", "keywords">>}

\* the index answers the two queries with lists of their own
IndexOf(first, second) ==
    [q \in QueryKinds |-> IF q = "intent" THEN first
                          ELSE IF q = "keywords" THEN second ELSE <<>>]

\* contexts of a review of document dA, without and with a pipeline
RetrievalContexts ==
    {ExecutionContext("dA", chunks, "none", SameForAll(<<>>), n, FALSE) :
         chunks \in ChunkLists, n \in MaxRetrieved}
    \cup {ExecutionContext("dA", <<>>, "ok", IndexOf(first, second), n, FALSE) :
              first \in RankedLists, second \in RankedLists, n \in MaxRetrieved}

\* _retrieve_chunks is called
RetrievalCalled(queries, ctx, tags) ==
    [pc |-> "called", queries |-> queries, ctx |-> ctx, tags |-> tags, chunks |-> <<>>]

InitRetrieval ==
    /\ ExecutorIdle /\ CallsIdle /\ StoreIdle /\ PipelineIdle /\ ChunkerIdle /\ ValidatorIdle
    /\ BuilderIdle /\ ServiceIdle
    /\ retrieval \in {RetrievalCalled(queries, ctx, tags) :
                          queries \in QueryLists, ctx \in RetrievalContexts, tags \in TagLists}

retrievalFrame == <<env, tasks, call, ncalls, calls, store, pipeline, chunker, validator,
                    builder, service>>

\* the call of _retrieve_chunks returns the chunks for the prompt
RetrieveChunksReturns ==
    /\ retrieval.pc = "called"
    /\ retrieval' = [retrieval EXCEPT
                        !.pc = "returned",
                        !.chunks = RetrieveChunks(retrieval.queries, retrieval.ctx,
                                                  retrieval.tags).chunks]
    /\ UNCHANGED retrievalFrame

NextRetrieval == RetrieveChunksReturns

SpecRetrieval == InitRetrieval /\ [][NextRetrieval]_vars

\* what the searches of the call returned, in query order
Found ==
    Concat([k \in 1..Len(retrieval.queries) |->
               PipelineSearch(retrieval.ctx, retrieval.queries[k],
                              retrieval.ctx.max_retrieved_chunks)])

\* the first position of a chunk_id in a list
FirstAt(chunk_id, list) ==
    CHOOSE k \in 1..Len(list) :
        list[k].chunk_id = chunk_id /\ \A j \in 1..(k - 1) : list[j].chunk_id # chunk_id

\* C24: in every context, with or without a pipeline, the chunks retrieved
\* for a rule have distinct chunk_ids, are at most max_retrieved_chunks, and
\* with a pipeline stand in the order in which the rule's queries, taken in
\* order, first found them
C24_RetrievedChunksAreDistinct ==
    retrieval.pc = "returned" =>
        LET chunks == retrieval.chunks
        IN /\ NoRepeat(ChunkIdsOf(chunks))
           /\ Len(chunks) <= retrieval.ctx.max_retrieved_chunks
           /\ retrieval.ctx.pipeline = "ok" =>
                 \A i, j \in DOMAIN chunks :
                     i < j => FirstAt(chunks[i].chunk_id, Found) < FirstAt(chunks[j].chunk_id, Found)

\* the part of C24 that holds: with a pipeline the chunks are distinct, at
\* most max_retrieved_chunks and in the order of first occurrence
RetrievedChunksAreDistinctWithPipeline ==
    (retrieval.pc = "returned" /\ retrieval.ctx.pipeline = "ok") =>
        LET chunks == retrieval.chunks
        IN /\ NoRepeat(ChunkIdsOf(chunks))
           /\ Len(chunks) <= retrieval.ctx.max_retrieved_chunks
           /\ \A i, j \in DOMAIN chunks :
                 i < j => FirstAt(chunks[i].chunk_id, Found) < FirstAt(chunks[j].chunk_id, Found)

\* C25: for a rule with retrieval_tags every chunk handed to the prompt has
\* a clause_hint that is one of the tags
C25_ChunksMatchRetrievalTags ==
    (retrieval.pc = "returned" /\ retrieval.tags # <<>>) =>
        \A i \in DOMAIN retrieval.chunks :
            \E k \in DOMAIN retrieval.tags :
                retrieval.chunks[i].clause_hint = retrieval.tags[k]

\* C28: with a pipeline whose index holds chunks of several documents,
\* every chunk retrieved in a review of document D is a chunk of D
C28_RetrievalStaysInDocument ==
    (retrieval.pc = "returned" /\ retrieval.ctx.pipeline = "ok") =>
        \A i \in DOMAIN retrieval.chunks :
            retrieval.chunks[i].doc_id = retrieval.ctx.doc_id

(***************************************************************************)
(* Document status (config/document_service.py, config/document_models.py, *)
(* api/document_routes.py).  One document is followed from its upload: its *)
(* status, status message and progress, the requests that change them, and *)
(* the background task that processes it.  Progress is in percent.         *)
(***************************************************************************)
DocumentStatus == {"UPLOADED", "PROCESSING", "READY", "REVIEWING", "REVIEWED", "FAILED"}

VALID_TRANSITIONS ==
    [s \in DocumentStatus |->
        CASE s = "UPLOADED" -> <<"PROCESSING", "FAILED">>
          [] s = "PROCESSING" -> <<"READY", "FAILED">>
          [] s = "READY" -> <<"REVIEWING">>
          [] s = "REVIEWING" -> <<"REVIEWED", "READY">>
          [] s = "REVIEWED" -> <<>>
          [] s = "FAILED" -> <<"PROCESSING">>]

\* a transition check that accepts every request
IsValidTransitionLax(from_status, to_status) == from_status = to_status \/ TRUE

\* DocumentService._is_valid_transition
IsValidTransition(from_status, to_status) ==
    IF from_status = to_status THEN TRUE
    ELSE LET allowed == IF from_status \in DOMAIN VALID_TRANSITIONS
                        THEN VALID_TRANSITIONS[from_status] ELSE <<>>
         IN \E k \in DOMAIN allowed : allowed[k] = to_status

\* progress = None
NoProgress == -1

\* the record service.create stores
CreatedDocument == [status |-> "UPLOADED", status_message |-> "uploaded", progress |-> 0]

\* Document.update_status: the message is set when it is truthy, the
\* progress when it is not None
DocumentUpdateStatus(doc, status, message, progress) ==
    [status |-> status,
     status_message |-> IF message # None /\ message # "" THEN message ELSE doc.status_message,
     progress |-> IF progress # NoProgress THEN progress ELSE doc.progress]

\* DocumentService.update_status on the stored document (found: whether
\* the query finds it)
UpdateStatus(found, doc, status, message, progress) ==
    IF ~found THEN [raises |-> FALSE, exc |-> None, doc |-> doc, returned |-> "None"]
    ELSE IF ~IsValidTransition(doc.status, status)
    THEN [raises |-> TRUE, exc |-> "ValueError", doc |-> doc, returned |-> "raised"]
    ELSE [raises |-> FALSE, exc |-> None, returned |-> "dict",
          doc |-> DocumentUpdateStatus(doc, status, message, progress)]

\* the update_status calls of process_document_task's try block
StatusCall(status, message, progress) ==
    [status |-> status, message |-> message, progress |-> progress]

TaskCalls == <<StatusCall("PROCESSING", "parsing", 10),
               StatusCall("PROCESSING", "parsed", 50),
               StatusCall("PROCESSING", "chunked", 70),
               StatusCall("READY", "done", 100)>>

\* how far the try block gets when its other steps run: the parser raises
\* after the first call, the chunker after the second, the embedding
\* pipeline or update_processing_info after the third, the page-count
\* session after the fourth, or nothing raises
TaskOutcomes == {"parse_raises", "chunk_raises", "embed_raises", "count_raises", "ok"}

CallsBefore(outcome) ==
    CASE outcome = "parse_raises" -> 1
      [] outcome = "chunk_raises" -> 2
      [] outcome = "embed_raises" -> 3
      [] OTHER -> 4

\* the calls 1..n of the try block in order, stopping at the first that raises
RECURSIVE RunCalls(_, _, _, _, _)
RunCalls(found, doc, k, n, path) ==
    IF k > n THEN [raises |-> FALSE, doc |-> doc, path |-> path]
    ELSE LET c == TaskCalls[k]
             r == UpdateStatus(found, doc, c.status, c.message, c.progress)
         IN IF r.raises THEN [raises |-> TRUE, doc |-> doc, path |-> path]
            ELSE RunCalls(found, r.doc, k + 1, n, Append(path, r.doc.status))

\* process_document_task: the try block, and on an exception the except
\* branch, whose own update_status call may raise out of the task
ProcessDocument(found, doc, outcome) ==
    LET tried == RunCalls(found, doc, 1, CallsBefore(outcome), <<>>)
    IN IF ~tried.raises /\ outcome = "ok"
       THEN [doc |-> tried.doc, path |-> tried.path, raised |-> None]
       ELSE LET r == UpdateStatus(found, tried.doc, "FAILED", "failed", 0)
            IN IF r.raises
               THEN [doc |-> tried.doc, path |-> tried.path, raised |-> r.exc]
               ELSE [doc |-> r.doc, path |-> Append(tried.path, r.doc.status), raised |-> None]

\* the requests of the status route: a status name, a message, a progress
RequestedStatuses == DocumentStatus \cup {"BOGUS"}
RequestedMessages == {None, "", "note"}
RequestedProgress == {NoProgress, 0, 30}

NoRequest == [op |-> "none", before |-> CreatedDocument, status |-> "", raised |-> None, path |-> <<>>]

InitService ==
    /\ ExecutorIdle /\ CallsIdle /\ StoreIdle /\ PipelineIdle /\ ChunkerIdle /\ ValidatorIdle
    /\ BuilderIdle /\ RetrievalIdle
    /\ service = [stored |-> "never", doc |-> CreatedDocument, task |-> "none", last |-> NoRequest]

serviceFrame == <<env, tasks, call, ncalls, calls, store, pipeline, chunker, validator,
                  builder, retrieval>>

\* upload_document: the record is created and the background task is added
UploadDocument ==
    /\ service.stored = "never"
    /\ service' = [stored |-> "yes", doc |-> CreatedDocument, task |-> "pending",
                   last |-> [NoRequest EXCEPT !.op = "create"]]
    /\ UNCHANGED serviceFrame

\* the route update_document_status (document_routes.py:364-410): the name
\* DocumentStatus is not bound in the module, so the conversion of the
\* requested status raises NameError for every request; the handler of
\* Exception answers 500 and the service is not called
UpdateDocumentStatus ==
    /\ service.stored # "never"
    /\ \E status \in RequestedStatuses :
          service' = [service EXCEPT
              !.last = [op |-> "status_route", before |-> service.doc, status |-> status,
                        raised |-> "HTTP500", path |-> <<>>]]
    /\ UNCHANGED serviceFrame

\* DocumentService.update_status (document_service.py:170-206) called with
\* a DocumentStatus, a message and a progress
UpdateStatusCall ==
    /\ service.stored # "never"
    /\ \E status \in DocumentStatus, message \in RequestedMessages,
          progress \in RequestedProgress :
          LET r == UpdateStatus(service.stored = "yes", service.doc, status, message, progress)
          IN service' = [service EXCEPT
                 !.doc = r.doc,
                 !.last = [op |-> "update_status", before |-> service.doc, status |-> status,
                           raised |-> r.exc, path |-> <<>>]]
    /\ UNCHANGED serviceFrame

\* process_document_task runs; it has no await, so no request runs between
\* its steps
ProcessDocumentTask ==
    /\ service.task = "pending"
    /\ \E outcome \in TaskOutcomes :
          LET r == ProcessDocument(service.stored = "yes", service.doc, outcome)
          IN service' = [service EXCEPT
                 !.doc = r.doc, !.task = "done",
                 !.last = [op |-> "task", before |-> service.doc, status |-> outcome,
                           raised |-> r.raised, path |-> r.path]]
    /\ UNCHANGED serviceFrame

\* delete_document
DeleteDocumentRecord ==
    /\ service.stored = "yes"
    /\ service' = [service EXCEPT !.stored = "deleted",
                                  !.last = [NoRequest EXCEPT !.op = "delete",
                                                             !.before = service.doc]]
    /\ UNCHANGED serviceFrame

NextService ==
    \/ UploadDocument
    \/ UpdateDocumentStatus
    \/ UpdateStatusCall
    \/ ProcessDocumentTask
    \/ DeleteDocumentRecord

SpecService == InitService /\ [][NextService]_vars

\* the permitted changes of status, written out as pairs
ListedEdges == {<<"UPLOADED", "PROCESSING">>, <<"UPLOADED", "FAILED">>,
                <<"PROCESSING", "READY">>, <<"PROCESSING", "FAILED">>,
                <<"READY", "REVIEWING">>, <<"REVIEWING", "REVIEWED">>,
                <<"REVIEWING", "READY">>, <<"FAILED", "PROCESSING">>}

\* the last call was update_status on the stored document
StatusRequested ==
    /\ service.last.op = "update_status"
    /\ service.stored = "yes"

\* C27: update_status changes the status only along a listed edge or to the
\* same status; every other request raises ValueError and leaves status,
\* message and progress as they were; a REVIEWED document stays REVIEWED
\* under requests and the task; the task run on an UPLOADED document takes it
\* to PROCESSING first and leaves it READY or FAILED
C27_StatusFollowsTransitions ==
    LET last == service.last
        from == last.before.status
    IN /\ StatusRequested =>
             IF from = last.status \/ <<from, last.status>> \in ListedEdges
             THEN last.raised = None /\ service.doc.status = last.status
             ELSE last.raised = "ValueError" /\ service.doc = last.before
       /\ (last.op \in {"update_status", "status_route", "task"} /\ from = "REVIEWED") =>
             service.doc.status = "REVIEWED"
       /\ (last.op = "task" /\ from = "UPLOADED" /\ service.stored = "yes") =>
             /\ last.path # <<>>
             /\ last.path[1] = "PROCESSING"
             /\ \A k \in 1..(Len(last.path) - 1) : last.path[k] = "PROCESSING"
             /\ service.doc.status \in {"READY", "FAILED"}
             /\ service.doc.status = last.path[Len(last.path)]

\* a REVIEWED document was asked to go back to READY and the request raised,
\* after the task had processed the uploaded document
C27_Witness ==
    /\ StatusRequested
    /\ service.last.before.status = "REVIEWED"
    /\ service.last.status = "READY"
    /\ service.last.raised = "ValueError"
    /\ service.task = "done"

====
